---- MODULE Spec2Model ----
(***************************************************************************)
(* A model of the Open Australian Legal Corpus Creator: the Creator        *)
(* (creator.py), which keeps the corpus file, the per-source caches of     *)
(* index requests and the per-source index logs, and the retry loop of     *)
(* Scraper.get (scraper.py).                                               *)
(***************************************************************************)
EXTENDS Integers, Sequences, FiniteSets, TLC

\* ------------------------------------------------------------------ bounds
\* The longest corpus file the first process starts from.
MaxCorpus == 2
\* The last instant of the clock.
MaxTime == 3
\* The number of processes (construction + create) started one after another.
MaxRuns == 2
\* The most retries of one call the model follows.
MaxAttempts == 6
\* The number of documents the sources hold while the bytes of the corpus are followed.
MaxDocs == 3
\* The number of get_index and get_doc tasks of one scraper that call Scraper.get.
MaxTasks == 3
\* The value the scraper's semaphore is created with (30, 10 or 4 in the source).
SemaphoreValue == 2
\* The most retries of one task while the semaphore is followed.
MaxRetries == 2
\* The longest raw version id and source name, in characters.
MaxIdLen == 2
\* The most batches the index files hold while the adapters' get_index is followed.
MaxBatches == 3
\* The index requests of the source whose index file is followed byte by byte.
MaxReqs == 3
\* The processes started one after another while that file is followed.
MaxLogRuns == 3
\* The most pages of a PDF that is converted.
MaxPages == 3

\* --------------------------------------------------------------- constants
\* timedelta(days=1), the default refresh interval, in clock ticks.
Day == 1

\* DATA_VERSIONS (metadata.py).
DATA_VERSIONS == [corpus |-> 1, index |-> 1, indices |-> 1]

\* The sources the corpus can hold documents of (SOURCES, creator.py).
Sources == {"s1", "s2"}

\* The requests for document indices a scraper can produce.
ReqsOf(s) == IF s = "s1" THEN {"A", "B"} ELSE {"C"}

\* The version ids (already formatted: prefixed with their source).
VidsOf(s) == IF s = "s1" THEN {"s1:v1", "s1:v2", "s1:v3"} ELSE {"s2:w1"}
Vids == VidsOf("s1") \cup VidsOf("s2")
SourceOfVid(v) == IF v \in VidsOf("s1") THEN "s1" ELSE "s2"

VARIABLES
    \* the files
    corpus,     \* corpus.jsonl: a sequence of lines
    tmp,        \* corpus.jsonl.tmp: [ex, lines]
    versions,   \* versions.json: [ex, v]
    indices,    \* indices/<source>.json: [ex, reqs, mtime]
    index,      \* index/<source>.jsonl: [ex, lines]
    \* the sources as they answer
    webReqs,    \* what scraper.get_index_reqs() returns, per source
    webDoc,     \* what scraper._get_doc(entry) returns, per version id
    \* the process
    pc,         \* where the process is
    run,        \* the number of processes started so far
    now,        \* datetime.now()
    scrapers,   \* self.scrapers: the names of the active sources
    policy,     \* per source, the two refresh intervals of its scraper
    kwargs,     \* per source, the two intervals its scraper was constructed with
    index_reqs, \* the results of _get_index_reqs gathered so far
    unindexed,  \* the get_index tasks not yet completed: pairs <<source, request>>
    entries,    \* the flattened map version_id -> [scraper, entry]
    pos,        \* the line of the corpus the rewrite loop is at
    corpus_version_ids, \* the version ids of the lines kept so far
    missing,    \* the get_doc tasks not yet completed: version ids
    warnings,   \* the number of warnings emitted by this process
    err,        \* the error create ended with, "none" if none
    \* history of the process
    corpus0,    \* the corpus file when the process was started
    corpus1,    \* the corpus file when create was called
    index0,     \* the index files when the process was started
    appended,   \* the lines this process appended to the corpus
    returned,   \* what the completed get_doc tasks of this process returned
    at,         \* where the process was when it stopped
    prev,       \* the process before this one: whether it completed, its sources, and
                \* the version ids get_doc returned None for
    expired,    \* a cache or a batch was older than its refresh interval in this process
    purged,     \* the version guard deleted the corpus file in this process
    \* one call of Scraper.get or Scraper.get_doc
    fn,         \* "get" or "get_doc" ("none": no call)
    cfg,        \* wait_base (num / den), max_wait, stop_after_waiting
    g_pc,       \* where the call is
    attempt,    \* attempt
    elapsed,    \* elapsed
    wait,       \* wait, as slept
    base_wait,  \* wait before the jitter is added, capped
    prev_wait,  \* the wait slept before this one
    sem_held,   \* the call holds a slot of self.semaphore
    exc,        \* the exception the call caught or raised last, "none" if none
    \* the bytes of the corpus file while documents are added to it
    f_disk,     \* the bytes of the file the operating system holds
    f_buf,      \* the bytes written to the file object and not flushed yet
    w_pc,       \* where the process that adds documents is
    w_run,      \* the number of such processes started so far
    w_todo,     \* the get_doc tasks not yet completed
    w_appended, \* the documents this process wrote, in the order written
    w_base,     \* the bytes of the file when it was opened to append
    \* the semaphore of one scraper and the tasks that call Scraper.get
    sem_value,  \* the counter of asyncio.Semaphore
    t_pc,       \* per task: idle, waiting, in_flight, sleeping, done, raised
    t_attempt,  \* per task: the retries so far
    \* Entry.format_id applied to two raw ids
    id_a, src_a,    \* a raw version id and a source name
    id_b, src_b,    \* another raw version id and source name
    out_a, out_b,   \* format_id of each
    again_a,        \* format_id of out_a and src_a
    formatted,      \* which of "a", "b", "again" have been computed
    \* the adapters' get_index and the index files
    ix_file,    \* the batches appended to the index files: source and entries
    ix_pc,      \* off, indexing, done, halted
    ix_run,     \* the runs started so far
    ix_err,     \* the exception that left create, or "none"
    ix_last,    \* the last call of get_index: adapter, page, warned
    \* the bytes of one source's index file
    l_disk,     \* the bytes of the file
    l_buf,      \* the bytes written and not flushed yet
    l_pc,       \* off, indexing, done, raised, killed, failed
    l_run,      \* the processes started so far
    l_todo,     \* the requests whose _get_index task has not completed
    l_appended, \* the requests whose batch this process has written
    l_before,   \* the requests whose batch earlier processes have written
    \* concurrent fetches that append their records to one file
    a_file,     \* the bytes of the file
    a_pc,       \* per task: fetch, ready, taken, record, end, skipped
    a_writer,   \* the task whose record is being appended, or 0
    \* one call of get_doc and the calls of get made inside it
    doc_cfg,     \* wait_base, max_wait and stop_after_waiting of the scraper
    doc_pc,      \* none, try, request, sleep, returned, raised
    doc_attempt, \* attempt of get_doc (scraper.py 101)
    doc_elapsed, \* elapsed of get_doc (scraper.py 102)
    doc_exc,     \* the last exception get_doc saw, or "none"
    get_attempt, \* attempt of the running call of get (scraper.py 147)
    get_elapsed, \* elapsed of the running call of get (scraper.py 148)
    \* one call of get, with the scraper's retry settings and the request's method
    scraper_kind, \* whose settings: the base class, or one of the two that change them
    req_method,   \* req.method: none, get or open
    response,     \* the status of the response of the last attempt, or 0
    \* concurrent calls of pdf2txt
    ocr_semaphore, \* the semaphore argument: "None" or "Semaphore"
    o_value,       \* the value of that semaphore
    o_pc,          \* per call: none, call, loop, ocr, done, raised
    o_left,        \* per call: the pages not converted yet
    o_imgs         \* per call: the page images held in imgs

vars == <<corpus, tmp, versions, indices, index, webReqs, webDoc, pc, run, now,
          scrapers, policy, kwargs, index_reqs, unindexed, entries, pos,
          corpus_version_ids, missing, warnings, err, corpus0, corpus1, index0,
          appended, returned, at, prev, expired, purged,
          fn, cfg, g_pc, attempt, elapsed, wait, base_wait, prev_wait, sem_held, exc,
          f_disk, f_buf, w_pc, w_run, w_todo, w_appended, w_base,
          sem_value, t_pc, t_attempt,
          id_a, src_a, id_b, src_b, out_a, out_b, again_a, formatted,
          ix_file, ix_pc, ix_run, ix_err, ix_last,
          l_disk, l_buf, l_pc, l_run, l_todo, l_appended, l_before,
          a_file, a_pc, a_writer,
          doc_cfg, doc_pc, doc_attempt, doc_elapsed, doc_exc, get_attempt, get_elapsed,
          scraper_kind, req_method, response,
          ocr_semaphore, o_value, o_pc, o_left, o_imgs>>

disk == <<corpus, tmp, versions, indices, index>>
web == <<webReqs, webDoc>>
hist == <<corpus0, corpus1, index0, appended, returned, at, prev, expired, purged>>
writer == <<f_disk, f_buf, w_pc, w_run, w_todo, w_appended, w_base>>
call == <<fn, cfg, g_pc, attempt, elapsed, wait, base_wait, prev_wait, sem_held, exc>>
engine == <<disk, web, pc, run, now, scrapers, policy, kwargs, index_reqs, unindexed, entries,
            pos, corpus_version_ids, missing, warnings, err, hist>>
\* What the steps of the Creator leave alone, and what the steps of a call do.
pool == <<sem_value, t_pc, t_attempt>>
idvars == <<id_a, src_a, id_b, src_b, out_a, out_b, again_a, formatted>>
adapters == <<ix_file, ix_pc, ix_run, ix_err, ix_last>>
logw == <<l_disk, l_buf, l_pc, l_run, l_todo, l_appended, l_before>>
appends == <<a_file, a_pc, a_writer>>
nested == <<doc_cfg, doc_pc, doc_attempt, doc_elapsed, doc_exc, get_attempt, get_elapsed>>
http == <<scraper_kind, req_method, response>>
ocr == <<ocr_semaphore, o_value, o_pc, o_left, o_imgs>>
net == <<call, writer, pool, idvars, adapters, logw, appends, nested, http, ocr>>
creator == <<engine, writer, pool, idvars, adapters, logw, appends, nested, http, ocr>>

\* ------------------------------------------------------------------- data
\* A line of the corpus: an encoded Document (data.py, Document), or bytes that
\* do not decode (ok = FALSE). alt tells two encodings of documents with the
\* same version id apart (a different text, a different when_scraped).
DocLine(v, a) == [ok |-> TRUE, version_id |-> v, source |-> SourceOfVid(v), alt |-> a]
BadLine == [ok |-> FALSE, version_id |-> "", source |-> "", alt |-> 0]

\* An Entry (data.py): title stands for the hints a document index gives.
MkEntry(s, v, r) == [version_id |-> v, source |-> s, title |-> r]

\* What scraper.get_index(req) yields.
WebIndex(r) ==
    CASE r = "A" -> {MkEntry("s1", "s1:v1", "A"), MkEntry("s1", "s1:v2", "A")}
      [] r = "B" -> {MkEntry("s1", "s1:v2", "B"), MkEntry("s1", "s1:v3", "B")}
      [] r = "C" -> {MkEntry("s2", "s2:w1", "C")}

\* Entries (data.py): one indexed batch.
MkEntries(r, t) == [request |-> r, entries |-> WebIndex(r), when_indexed |-> t]

\* A line of an index file that entries_decoder rejects.
BadBatch == [request |-> "undecodable", entries |-> {}, when_indexed |-> 0]

NoCache == [ex |-> FALSE, reqs |-> {}, mtime |-> 0]
NoLog == [ex |-> FALSE, lines |-> <<>>]
NoTmp == [ex |-> FALSE, lines |-> <<>>]
EmptyMap == [v \in {} |-> 0]

\* Scraper.__init__ (scraper.py 50, 53): `interval or timedelta(days=1)`.
\* The argument is None ("none"), True ("always"), False ("never") or a timedelta
\* ("day"); None and False are both falsy.
ScraperInit(arg) == IF arg \in {"none", "never"} THEN "day" ELSE arg

\* The length of an interval that is a timedelta.
Dur(p) == Day

\* ------------------------------------------------------------ pure helpers
Range(f) == {f[x] : x \in DOMAIN f}

\* A dictionary updated with another: the keys of g overwrite those of f.
Merge(f, g) == [x \in DOMAIN f \cup DOMAIN g |-> IF x \in DOMAIN g THEN g[x] ELSE f[x]]

\* A faulty decoder that takes every line for a document.
DecodesAll(line) == TRUE

\* document_decoder(line) raises DecodeError (creator.py 245-251).
Decodes(line) == line.ok

\* The version ids of the documents of a corpus file, line by line (the lines that
\* do not decode left out).
RECURSIVE VersionIds(_)
VersionIds(lines) ==
    IF lines = <<>> THEN <<>>
    ELSE IF Decodes(Head(lines)) THEN <<Head(lines).version_id>> \o VersionIds(Tail(lines))
    ELSE VersionIds(Tail(lines))

\* A faulty flattening that reads the last batch of an index only.
FlattenIndexLastBatch(s, idx, acc) ==
    IF idx = <<>> THEN acc
    ELSE LET b == idx[Len(idx)]
         IN Merge(acc, [v \in {e.version_id : e \in b.entries} |->
                          [scraper |-> s, entry |-> CHOOSE e \in b.entries : e.version_id = v]])

\* A faulty flattening that reads the first batch of an index only.
FlattenIndexFirstBatch(s, idx, acc) ==
    IF idx = <<>> THEN acc
    ELSE LET b == idx[1]
         IN Merge(acc, [v \in {e.version_id : e \in b.entries} |->
                          [scraper |-> s, entry |-> CHOOSE e \in b.entries : e.version_id = v]])

\* A faulty flattening in which the entry met first is kept.
RECURSIVE FlattenIndexFirstWins(_, _, _)
FlattenIndexFirstWins(s, idx, acc) ==
    IF idx = <<>> THEN acc
    ELSE LET b == Head(idx)
             upd == [v \in {e.version_id : e \in b.entries} |->
                        [scraper |-> s, entry |-> CHOOSE e \in b.entries : e.version_id = v]]
         IN FlattenIndexFirstWins(s, Tail(idx), Merge(upd, acc))

\* The dictionary comprehension of creator.py 232-238 over one index: a later
\* batch overwrites the entries of an earlier one.
RECURSIVE FlattenIndex(_, _, _)
FlattenIndex(s, idx, acc) ==
    IF idx = <<>> THEN acc
    ELSE LET b == Head(idx)
             upd == [v \in {e.version_id : e \in b.entries} |->
                        [scraper |-> s, entry |-> CHOOSE e \in b.entries : e.version_id = v]]
         IN FlattenIndex(s, Tail(idx), Merge(acc, upd))

\* self.scrapers.values(), in the order the dictionary holds them.
ScraperOrder(active) == SelectSeq(<<"s1", "s2">>, LAMBDA s : s \in active)

RECURSIVE FlattenAll(_, _, _)
FlattenAll(order, idx, acc) ==
    IF order = <<>> THEN acc
    ELSE FlattenAll(Tail(order), idx, FlattenIndex(Head(order), idx[Head(order)].lines, acc))

\* A faulty test that retrieves the requests anew whatever the cache.
MustRefreshIndicesAlways(file, interval, t) == TRUE

\* The test of creator.py 128-131: the requests are retrieved anew.
MustRefreshIndices(file, interval, t) ==
    \/ ~file.ex
    \/ interval = "always"
    \/ (interval # "never" /\ t - file.mtime > Dur(interval))

\* A faulty filter that keeps the batches whatever their request.
KeepEntriesAnyRequest(b, reqs, interval, t) ==
    interval = "never" \/ t - b.when_indexed <= Dur(interval)

\* A faulty filter that keeps the batches whatever their age.
KeepEntriesAnyAge(b, reqs, interval, t) == b.request \in reqs

\* The filter of creator.py 163-166.
KeepEntries(b, reqs, interval, t) ==
    /\ b.request \in reqs
    /\ (interval = "never" \/ t - b.when_indexed <= Dur(interval))

\* A faulty reconciliation that returns every request, indexed or not.
GetUnindexedIndexReqsAll(file, reqs, interval, t) ==
    IF ~file.ex THEN [file |-> file, reqs |-> reqs]
    ELSE IF interval = "always" THEN [file |-> NoLog, reqs |-> reqs]
    ELSE LET kept == SelectSeq(file.lines, LAMBDA b : KeepEntries(b, reqs, interval, t))
         IN [file |-> [ex |-> TRUE, lines |-> kept], reqs |-> reqs]

\* Creator._get_unindexed_index_reqs (creator.py 141-173): the index file it
\* leaves and the requests it returns.
GetUnindexedIndexReqs(file, reqs, interval, t) ==
    IF ~file.ex THEN [file |-> file, reqs |-> reqs]
    ELSE IF interval = "always" THEN [file |-> NoLog, reqs |-> reqs]
    ELSE LET kept == SelectSeq(file.lines, LAMBDA b : KeepEntries(b, reqs, interval, t))
         IN [file |-> [ex |-> TRUE, lines |-> kept],
             reqs |-> reqs \ {kept[k].request : k \in DOMAIN kept}]

\* A faulty test that keeps no line of an active source.
KeepLineOutsideOnly(doc, kept, ents, active) ==
    /\ \A k \in DOMAIN kept : kept[k] # doc.version_id
    /\ doc.source \notin active

\* A faulty test that does not look at the version ids already kept.
KeepLineNoDedup(doc, kept, ents, active) ==
    doc.version_id \in DOMAIN ents \/ doc.source \notin active

\* A faulty test that keeps the indexed documents only, whatever their source.
KeepLineIndexedOnly(doc, kept, ents, active) ==
    /\ \A k \in DOMAIN kept : kept[k] # doc.version_id
    /\ doc.version_id \in DOMAIN ents

\* A faulty test that keeps the first line of every version id, indexed or not.
KeepLineAnyEntry(doc, kept, ents, active) ==
    \A k \in DOMAIN kept : kept[k] # doc.version_id

\* The test of creator.py 253: the line is written to the temporary file.
KeepLine(doc, kept, ents, active) ==
    /\ \A k \in DOMAIN kept : kept[k] # doc.version_id
    /\ (doc.version_id \in DOMAIN ents \/ doc.source \notin active)

\* A faulty selection that takes no entry for missing.
MissingEntriesNone(ents, kept) == {}

\* creator.py 264: the entries with no line in the rewritten corpus.
MissingEntries(ents, kept) == {v \in DOMAIN ents : v \notin Range(kept)}

\* ---------------------------------------------------------------- actions
Running == {"create", "gather", "indexing", "flatten", "rewrite", "replace", "docs"}
Stopped == {"off", "done", "halted", "crashed"}

\* A faulty constructor that deletes every category when any stamp differs.
ConstructDeletesAll(active, dt) ==
    /\ pc \in Stopped
    /\ run < MaxRuns
    /\ run' = run + 1
    /\ (pc = "off" => dt = 0)
    /\ now + dt <= MaxTime
    /\ now' = now + dt
    /\ LET stale(name) == versions.ex /\ versions.v # DATA_VERSIONS
       IN /\ corpus' = IF stale("corpus") THEN <<>> ELSE corpus
          /\ indices' = IF stale("indices") THEN [s \in Sources |-> NoCache] ELSE indices
          /\ index' = IF stale("index") THEN [s \in Sources |-> NoLog] ELSE index
          /\ purged' = stale("corpus")
    /\ versions' = [ex |-> TRUE, v |-> DATA_VERSIONS]
    /\ scrapers' = active
    /\ pc' = "create"
    /\ index_reqs' = EmptyMap
    /\ unindexed' = {}
    /\ entries' = EmptyMap
    /\ pos' = 1
    /\ corpus_version_ids' = <<>>
    /\ missing' = {}
    /\ warnings' = 0
    /\ err' = "none"
    /\ corpus0' = corpus
    /\ corpus1' = <<>>
    /\ index0' = index
    /\ appended' = <<>>
    /\ returned' = EmptyMap
    /\ at' = "none"
    /\ prev' = [done |-> pc = "done", scrapers |-> scrapers,
                none |-> {v \in DOMAIN returned : returned[v] = "missing"},
                appended |-> IF pc \in {"halted", "crashed"} /\ at = "docs"
                             THEN {appended[i].version_id : i \in DOMAIN appended}
                             ELSE {}]
    /\ expired' = FALSE
    /\ UNCHANGED <<tmp, web, policy, kwargs, net>>

\* Creator.__init__ (creator.py 44-119) for the sources `active`: the version
\* guard, the directories, the corpus file and versions.json. The process is
\* started dt after the one before it stopped.
Construct(active, dt) ==
    /\ pc \in Stopped
    /\ run < MaxRuns
    /\ run' = run + 1
    /\ (pc = "off" => dt = 0)
    /\ now + dt <= MaxTime
    /\ now' = now + dt
    /\ LET stale(name) == versions.ex /\ versions.v[name] # DATA_VERSIONS[name]
       IN /\ corpus' = IF stale("corpus") THEN <<>> ELSE corpus
          /\ indices' = IF stale("indices") THEN [s \in Sources |-> NoCache] ELSE indices
          /\ index' = IF stale("index") THEN [s \in Sources |-> NoLog] ELSE index
          /\ purged' = stale("corpus")
    /\ versions' = [ex |-> TRUE, v |-> DATA_VERSIONS]
    /\ scrapers' = active
    /\ pc' = "create"
    /\ index_reqs' = EmptyMap
    /\ unindexed' = {}
    /\ entries' = EmptyMap
    /\ pos' = 1
    /\ corpus_version_ids' = <<>>
    /\ missing' = {}
    /\ warnings' = 0
    /\ err' = "none"
    /\ corpus0' = corpus
    /\ corpus1' = <<>>
    /\ index0' = index
    /\ appended' = <<>>
    /\ returned' = EmptyMap
    /\ at' = "none"
    /\ prev' = [done |-> pc = "done", scrapers |-> scrapers,
                none |-> {v \in DOMAIN returned : returned[v] = "missing"},
                appended |-> IF pc \in {"halted", "crashed"} /\ at = "docs"
                             THEN {appended[i].version_id : i \in DOMAIN appended}
                             ELSE {}]
    /\ expired' = FALSE
    /\ UNCHANGED <<tmp, web, policy, kwargs, net>>

\* Creator.create begins (creator.py 185-197): the session is opened and the
\* _get_index_reqs tasks are handed to alive_gather.
StartCreate ==
    /\ pc = "create"
    /\ pc' = "gather"
    /\ corpus1' = corpus
    /\ UNCHANGED <<disk, web, run, now, scrapers, policy, kwargs, index_reqs, unindexed, entries,
                   pos, corpus_version_ids, missing, warnings, err, corpus0, index0,
                   appended, returned, at, prev, expired, purged, net>>

\* One _get_index_reqs task completes (creator.py 122-138).
GetIndexReqs(s) ==
    /\ pc = "gather"
    /\ s \in scrapers \ DOMAIN index_reqs
    /\ IF MustRefreshIndices(indices[s], policy[s].indices, now)
       THEN /\ indices' = [indices EXCEPT ![s] = [ex |-> TRUE, reqs |-> webReqs[s], mtime |-> now]]
            /\ index_reqs' = Merge(index_reqs, [x \in {s} |-> webReqs[s]])
            /\ expired' = (expired \/ (indices[s].ex /\ policy[s].indices # "always"))
       ELSE /\ index_reqs' = Merge(index_reqs, [x \in {s} |-> indices[s].reqs])
            /\ UNCHANGED <<indices, expired>>
    /\ UNCHANGED <<corpus, tmp, versions, index, web, pc, run, now, scrapers, policy, kwargs,
                   unindexed, entries, pos, corpus_version_ids, missing, warnings, err,
                   corpus0, corpus1, index0, appended, returned, at, prev, purged, net>>

\* load_jsonl (helpers.py 70-74, called at creator.py 156) cannot decode a line of
\* the index file of s: _get_unindexed_index_reqs loads the file when it exists and
\* the interval is not True (creator.py 146-156).
Undecodable(s) ==
    /\ index[s].ex
    /\ policy[s].index # "always"
    /\ \E k \in DOMAIN index[s].lines : index[s].lines[k] = BadBatch

\* A faulty create that opens the temporary file before reconciling the indices.
ReconcileRaisesLate(s, before) ==
    /\ pc = "gather"
    /\ DOMAIN index_reqs = scrapers
    /\ s \in scrapers
    /\ Undecodable(s)
    /\ before \subseteq scrapers \ {s}
    /\ tmp' = [ex |-> TRUE, lines |-> <<>>]
    /\ pc' = "halted"
    /\ err' = "DecodeError"
    /\ at' = pc
    /\ UNCHANGED <<corpus, versions, indices, index, web, run, now, scrapers, policy, kwargs,
                   index_reqs, unindexed, entries, pos, corpus_version_ids, missing, warnings,
                   corpus0, corpus1, index0, appended, returned, prev, expired, purged, net>>

\* creator.py 202: the indices are reconciled scraper by scraper, in the order of
\* self.scrapers; the index file of s has a line that cannot be decoded and
\* load_jsonl raises (creator.py 156), after the scrapers `before` it were
\* reconciled; the error leaves create.
ReconcileRaises(s, before) ==
    /\ pc = "gather"
    /\ DOMAIN index_reqs = scrapers
    /\ s \in scrapers
    /\ Undecodable(s)
    /\ before \subseteq scrapers \ {s}
    /\ \A d \in before : ~Undecodable(d)
    /\ index' = [d \in Sources |->
                    IF d \in before
                    THEN GetUnindexedIndexReqs(index[d], index_reqs[d], policy[d].index, now).file
                    ELSE index[d]]
    /\ pc' = "halted"
    /\ err' = "DecodeError"
    /\ at' = pc
    /\ UNCHANGED <<corpus, tmp, versions, indices, web, run, now, scrapers, policy, kwargs,
                   index_reqs, unindexed, entries, pos, corpus_version_ids, missing, warnings,
                   corpus0, corpus1, index0, appended, returned, prev, expired, purged, net>>

\* scraper.get_index_reqs() raises in a task that retrieves the requests anew: the
\* error leaves alive_gather and create.
GetIndexReqsRaises(s) ==
    /\ pc = "gather"
    /\ s \in scrapers \ DOMAIN index_reqs
    /\ MustRefreshIndices(indices[s], policy[s].indices, now)
    /\ pc' = "halted"
    /\ err' = "get_index_reqs"
    /\ at' = pc
    /\ UNCHANGED <<disk, web, run, now, scrapers, policy, kwargs, index_reqs, unindexed, entries,
                   pos, corpus_version_ids, missing, warnings, corpus0, corpus1, index0,
                   appended, returned, prev, expired, purged, net>>

\* creator.py 199-218: every scraper's index is reconciled with its requests,
\* and the index files of the sources with unindexed requests are opened to append.
Reconcile ==
    /\ pc = "gather"
    /\ DOMAIN index_reqs = scrapers
    /\ \A s \in scrapers : ~Undecodable(s)
    /\ LET res == [s \in scrapers |->
                      GetUnindexedIndexReqs(index[s], index_reqs[s], policy[s].index, now)]
           todo == {<<s, r>> : s \in scrapers, r \in ReqsOf("s1") \cup ReqsOf("s2")}
           un == {t \in todo : t[2] \in res[t[1]].reqs}
           opened == {t[1] : t \in un}
           aged(s) == /\ index[s].ex
                      /\ policy[s].index \notin {"always", "never"}
                      /\ \E k \in DOMAIN index[s].lines :
                            now - index[s].lines[k].when_indexed > Dur(policy[s].index)
       IN /\ unindexed' = un
          /\ index' = [s \in Sources |->
                          IF s \notin scrapers THEN index[s]
                          ELSE IF s \in opened THEN [ex |-> TRUE, lines |-> res[s].file.lines]
                          ELSE res[s].file]
          /\ expired' = (expired \/ \E s \in scrapers : aged(s))
          /\ pc' = IF un = {} THEN "flatten" ELSE "indexing"
    /\ UNCHANGED <<corpus, tmp, versions, indices, web, run, now, scrapers, policy, kwargs,
                   index_reqs, entries, pos, corpus_version_ids, missing, warnings, err,
                   corpus0, corpus1, index0, appended, returned, at, prev, purged, net>>

\* One _get_index task completes (creator.py 176-183) and its batch is appended
\* to the index of its source (creator.py 221-225).
GetIndex(s, r) ==
    /\ pc = "indexing"
    /\ <<s, r>> \in unindexed
    /\ index' = [index EXCEPT ![s].lines = Append(@, MkEntries(r, now))]
    /\ unindexed' = unindexed \ {<<s, r>>}
    /\ pc' = IF unindexed' = {} THEN "flatten" ELSE "indexing"
    /\ UNCHANGED <<corpus, tmp, versions, indices, web, run, now, scrapers, policy, kwargs,
                   index_reqs, entries, pos, corpus_version_ids, missing, warnings, err,
                   hist, net>>

\* scraper.get_index(req) raises: the index files are closed and create ends.
GetIndexRaises(s, r) ==
    /\ pc = "indexing"
    /\ <<s, r>> \in unindexed
    /\ pc' = "halted"
    /\ err' = "get_index"
    /\ at' = pc
    /\ UNCHANGED <<disk, web, run, now, scrapers, policy, kwargs, index_reqs, unindexed, entries,
                   pos, corpus_version_ids, missing, warnings, corpus0, corpus1, index0,
                   appended, returned, prev, expired, purged, net>>

\* creator.py 228-243: the indices are loaded and flattened, the corpus is
\* opened to be read and the temporary file to be written.
Flatten ==
    /\ pc = "flatten"
    /\ \A s \in scrapers : index[s].ex
    /\ entries' = FlattenAll(ScraperOrder(scrapers), index, EmptyMap)
    /\ tmp' = [ex |-> TRUE, lines |-> <<>>]
    /\ pos' = 1
    /\ corpus_version_ids' = <<>>
    /\ pc' = "rewrite"
    /\ UNCHANGED <<corpus, versions, indices, index, web, run, now, scrapers, policy, kwargs,
                   index_reqs, unindexed, missing, warnings, err, hist, net>>

\* load_jsonl (helpers.py 70-74) opens an index file that does not exist.
FlattenRaises ==
    /\ pc = "flatten"
    /\ \E s \in scrapers : ~index[s].ex
    /\ pc' = "halted"
    /\ err' = "FileNotFoundError"
    /\ at' = pc
    /\ UNCHANGED <<disk, web, run, now, scrapers, policy, kwargs, index_reqs, unindexed, entries,
                   pos, corpus_version_ids, missing, warnings, corpus0, corpus1, index0,
                   appended, returned, prev, expired, purged, net>>

\* One turn of the loop of creator.py 244-256.
RewriteLine ==
    /\ pc = "rewrite"
    /\ pos <= Len(corpus)
    /\ LET line == corpus[pos]
       IN IF ~Decodes(line)
          THEN /\ warnings' = warnings + 1
               /\ UNCHANGED <<tmp, corpus_version_ids>>
          ELSE IF KeepLine(line, corpus_version_ids, entries, scrapers)
          THEN /\ tmp' = [tmp EXCEPT !.lines = Append(@, line)]
               /\ corpus_version_ids' = Append(corpus_version_ids, line.version_id)
               /\ UNCHANGED warnings
          ELSE UNCHANGED <<tmp, corpus_version_ids, warnings>>
    /\ pos' = pos + 1
    /\ UNCHANGED <<corpus, versions, indices, index, web, pc, run, now, scrapers, policy, kwargs,
                   index_reqs, unindexed, entries, missing, err, hist, net>>

\* A faulty loop that can end before the last line of the corpus is read.
RewriteEndEarly ==
    /\ pc = "rewrite"
    /\ pc' = "replace"
    /\ UNCHANGED <<disk, web, run, now, scrapers, policy, kwargs, index_reqs, unindexed, entries,
                   pos, corpus_version_ids, missing, warnings, err, hist, net>>

\* The loop ends and both files are closed (creator.py 243, 258).
RewriteEnd ==
    /\ pc = "rewrite"
    /\ pos > Len(corpus)
    /\ pc' = "replace"
    /\ UNCHANGED <<disk, web, run, now, scrapers, policy, kwargs, index_reqs, unindexed, entries,
                   pos, corpus_version_ids, missing, warnings, err, hist, net>>

\* creator.py 261-277: the temporary file replaces the corpus, the missing
\* entries are found and their get_doc tasks dispatched.
Replace ==
    /\ pc = "replace"
    /\ corpus' = tmp.lines
    /\ tmp' = NoTmp
    /\ missing' = MissingEntries(entries, corpus_version_ids)
    /\ pc' = IF missing' = {} THEN "done" ELSE "docs"
    /\ UNCHANGED <<versions, indices, index, web, run, now, scrapers, policy, kwargs, index_reqs,
                   unindexed, entries, pos, corpus_version_ids, warnings, err, hist, net>>

\* A faulty append that writes a line whatever the task returned.
GetDocAppendsNone(v) ==
    /\ pc = "docs"
    /\ v \in missing
    /\ LET e == entries[v].entry
           line == [ok |-> TRUE, version_id |-> e.version_id, source |-> e.source, alt |-> 0]
       IN /\ corpus' = Append(corpus, line)
          /\ appended' = Append(appended, line)
    /\ returned' = Merge(returned, [x \in {v} |-> webDoc[v]])
    /\ missing' = missing \ {v}
    /\ pc' = IF missing' = {} THEN "done" ELSE "docs"
    /\ UNCHANGED <<tmp, versions, indices, index, web, run, now, scrapers, policy, kwargs,
                   index_reqs, unindexed, entries, pos, corpus_version_ids, warnings, err,
                   corpus0, corpus1, index0, at, prev, expired, purged, net>>

\* One get_doc task completes (creator.py 278-283): a document is appended, a
\* missing document (None) is not.
GetDoc(v) ==
    /\ pc = "docs"
    /\ v \in missing
    /\ IF webDoc[v] = "doc"
       THEN LET e == entries[v].entry
                line == [ok |-> TRUE, version_id |-> e.version_id, source |-> e.source, alt |-> 0]
            IN /\ corpus' = Append(corpus, line)
               /\ appended' = Append(appended, line)
       ELSE UNCHANGED <<corpus, appended>>
    /\ returned' = Merge(returned, [x \in {v} |-> webDoc[v]])
    /\ missing' = missing \ {v}
    /\ pc' = IF missing' = {} THEN "done" ELSE "docs"
    /\ UNCHANGED <<tmp, versions, indices, index, web, run, now, scrapers, policy, kwargs,
                   index_reqs, unindexed, entries, pos, corpus_version_ids, warnings, err,
                   corpus0, corpus1, index0, at, prev, expired, purged, net>>

\* A get_doc task raises e (a ParseError once get_doc gives up retrying, any other
\* exception at once): the corpus is closed and create ends with e.
GetDocRaises(v, e) ==
    /\ pc = "docs"
    /\ v \in missing
    /\ pc' = "halted"
    /\ err' = e
    /\ at' = pc
    /\ UNCHANGED <<disk, web, run, now, scrapers, policy, kwargs, index_reqs, unindexed, entries,
                   pos, corpus_version_ids, missing, warnings, corpus0, corpus1, index0,
                   appended, returned, prev, expired, purged, net>>

\* The process is stopped from outside while create runs.
Crash ==
    /\ pc \in Running
    /\ pc' = "crashed"
    /\ at' = pc
    /\ UNCHANGED <<disk, web, run, now, scrapers, policy, kwargs, index_reqs, unindexed, entries,
                   pos, corpus_version_ids, missing, warnings, err, corpus0, corpus1,
                   index0, appended, returned, prev, expired, purged, net>>

\* The sources a Creator is constructed for.
ActiveSets == {{"s1"}, {"s1", "s2"}}

\* The exceptions a get_doc task ends with.
DocErrors == {"ParseError", "Exception"}

NextCreator ==
    \/ \E active \in ActiveSets : \E dt \in 0..Day : Construct(active, dt)
    \/ StartCreate
    \/ \E s \in Sources : GetIndexReqs(s)
    \/ \E s \in Sources : GetIndexReqsRaises(s)
    \/ Reconcile
    \/ \E s \in Sources : \E before \in SUBSET Sources : ReconcileRaises(s, before)
    \/ \E s \in Sources : \E r \in ReqsOf(s) : GetIndex(s, r)
    \/ \E s \in Sources : \E r \in ReqsOf(s) : GetIndexRaises(s, r)
    \/ Flatten
    \/ FlattenRaises
    \/ RewriteLine
    \/ RewriteEnd
    \/ Replace
    \/ \E v \in Vids : GetDoc(v)
    \/ \E v \in Vids : \E e \in DocErrors : GetDocRaises(v, e)
    \/ Crash

\* ------------------------------------- Scraper.get and Scraper.get_doc
\* Times are whole numbers of units, 2 * den ^ MaxAttempts units to the second, so
\* that wait_base ** attempt / 2 is a whole number for every attempt followed.
RECURSIVE Pow(_, _)
Pow(b, n) == IF n = 0 THEN 1 ELSE b * Pow(b, n - 1)

Unit(den) == 2 * Pow(den, MaxAttempts)

\* A faulty backoff whose waits shrink: wait_base ** -attempt / 2.
BackoffWaitShrinking(c, n) == Pow(c.den, n) * Pow(c.num, MaxAttempts - n)

\* self.wait_base ** attempt / 2 (scraper.py 115, 181).
BackoffWait(c, n) == Pow(c.num, n) * Pow(c.den, MaxAttempts - n)

\* A faulty jitter drawn from twice the range.
JittersWide(w) == {0, w, 2 * w}

\* random.uniform(0, wait) (scraper.py 118, 184): both ends and the middle.
Jitters(w) == {0, w \div 2, w}

\* A faulty wait that is never capped.
CappedWaitNever(c, w) == w

\* min(wait, self.max_wait) (scraper.py 123, 189).
CappedWait(c, w) == IF w > c.max_wait THEN c.max_wait ELSE w

\* A faulty test that gives up at the first error.
GivesUpAtOnce(c, e) == TRUE

\* The test of scraper.py 109, 175: the error is raised, not retried.
GivesUp(c, e) == e > c.stop_after_waiting

\* self.retry_exceptions (scraper.py 26-33), in short.
retry_exceptions == {"TimeoutError", "ClientResponseError"}

\* What one attempt ends with: a value or an exception.
Outcomes(f) ==
    IF f = "get" THEN {"Response", "TimeoutError", "ClientResponseError", "Exception"}
    ELSE {"Document", "None", "ParseError", "TimeoutError", "Exception"}
Values == {"Response", "Document", "None"}

\* Faulty except clauses that catch every exception.
CaughtAll(f, o) == TRUE

\* The except clauses of scraper.py 108 and 174.
Caught(f, o) ==
    \/ (f = "get" /\ o \in retry_exceptions)
    \/ (f = "get_doc" /\ o = "ParseError")

\* The attempt starts: get enters `async with self.semaphore` (scraper.py 154),
\* get_doc awaits self._get_doc (scraper.py 106).
Attempt ==
    /\ g_pc = "try"
    /\ g_pc' = "request"
    /\ sem_held' = (fn = "get")
    /\ UNCHANGED <<creator, fn, cfg, attempt, elapsed, wait, base_wait, prev_wait, exc>>

\* The attempt returns a value (scraper.py 106, 167).
Returns(o) ==
    /\ g_pc = "request"
    /\ o \in Outcomes(fn) \cap Values
    /\ g_pc' = "returned"
    /\ sem_held' = FALSE
    /\ UNCHANGED <<creator, fn, cfg, attempt, elapsed, wait, base_wait, prev_wait, exc>>

\* The attempt raises an exception no except clause catches.
Propagates(o) ==
    /\ g_pc = "request"
    /\ o \in Outcomes(fn) \ Values
    /\ ~Caught(fn, o)
    /\ g_pc' = "raised"
    /\ exc' = o
    /\ sem_held' = FALSE
    /\ UNCHANGED <<creator, fn, cfg, attempt, elapsed, wait, base_wait, prev_wait>>

\* The attempt raises a caught exception after the waits have exceeded
\* stop_after_waiting: it is raised again (scraper.py 109-110, 175-176).
Reraises(o) ==
    /\ g_pc = "request"
    /\ o \in Outcomes(fn) \ Values
    /\ Caught(fn, o)
    /\ GivesUp(cfg, elapsed)
    /\ g_pc' = "raised"
    /\ exc' = o
    /\ sem_held' = FALSE
    /\ UNCHANGED <<creator, fn, cfg, attempt, elapsed, wait, base_wait, prev_wait>>

\* The attempt raises a caught exception and the call backs off
\* (scraper.py 112-126, 178-192).
Backoff(o) ==
    /\ g_pc = "request"
    /\ o \in Outcomes(fn) \ Values
    /\ Caught(fn, o)
    /\ ~GivesUp(cfg, elapsed)
    /\ attempt < MaxAttempts
    /\ attempt' = attempt + 1
    /\ base_wait' = CappedWait(cfg, BackoffWait(cfg, attempt + 1))
    /\ \E jitter \in Jitters(BackoffWait(cfg, attempt + 1)) :
          wait' = CappedWait(cfg, BackoffWait(cfg, attempt + 1) + jitter)
    /\ prev_wait' = wait
    /\ exc' = o
    /\ g_pc' = "sleep"
    /\ sem_held' = FALSE
    /\ UNCHANGED <<creator, fn, cfg, elapsed>>

\* asyncio.sleep(wait) ends (scraper.py 126-128, 192-194).
Wake ==
    /\ g_pc = "sleep"
    /\ elapsed' = elapsed + wait
    /\ g_pc' = "try"
    /\ UNCHANGED <<creator, fn, cfg, attempt, wait, base_wait, prev_wait, sem_held, exc>>

AllOutcomes == Outcomes("get") \cup Outcomes("get_doc")

NextScraper ==
    \/ Attempt
    \/ \E o \in AllOutcomes : Returns(o)
    \/ \E o \in AllOutcomes : Propagates(o)
    \/ \E o \in AllOutcomes : Reraises(o)
    \/ \E o \in AllOutcomes : Backoff(o)
    \/ Wake

Next == NextCreator \/ NextScraper

\* ------------------- get_doc and the calls of get inside it (scraper.py 97-194)
\* attempt and elapsed are local variables of each of the two coroutines: get_doc
\* has its own (scraper.py 101-102), every call of get has its own (147-148).

\* What _get_doc ends with: a value, or the exception that leaves it.
DocOutcomes == Outcomes("get_doc")

\* A faulty get whose backoff counts in the counters of get_doc.
GetBackoffShared(o) ==
    /\ doc_pc = "request"
    /\ o \in retry_exceptions
    /\ ~GivesUp(doc_cfg, get_elapsed)
    /\ get_attempt < MaxAttempts
    /\ doc_attempt < MaxAttempts
    /\ get_attempt' = get_attempt + 1
    /\ doc_attempt' = doc_attempt + 1
    /\ \E jitter \in Jitters(BackoffWait(doc_cfg, get_attempt + 1)) :
          /\ get_elapsed' = get_elapsed + CappedWait(doc_cfg, BackoffWait(doc_cfg, get_attempt + 1) + jitter)
          /\ doc_elapsed' = doc_elapsed + CappedWait(doc_cfg, BackoffWait(doc_cfg, get_attempt + 1) + jitter)
    /\ UNCHANGED <<engine, ocr, call, http, writer, pool, idvars, adapters, logw, appends,
                   doc_cfg, doc_pc, doc_exc>>

\* get_doc awaits self._get_doc (scraper.py 106), which calls self.get: the call
\* of get starts with its own counters at zero (scraper.py 147-148).
DocAttempt ==
    /\ doc_pc = "try"
    /\ doc_pc' = "request"
    /\ get_attempt' = 0
    /\ get_elapsed' = 0
    /\ UNCHANGED <<engine, ocr, call, http, writer, pool, idvars, adapters, logw, appends,
                   doc_cfg, doc_attempt, doc_elapsed, doc_exc>>

\* Inside get a request raises one of retry_exceptions before the waits of this
\* call of get have exceeded stop_after_waiting: get backs off, sleeps and tries
\* again (scraper.py 174-194).
GetBackoff(o) ==
    /\ doc_pc = "request"
    /\ o \in retry_exceptions
    /\ ~GivesUp(doc_cfg, get_elapsed)
    /\ get_attempt < MaxAttempts
    /\ get_attempt' = get_attempt + 1
    /\ \E jitter \in Jitters(BackoffWait(doc_cfg, get_attempt + 1)) :
          get_elapsed' = get_elapsed + CappedWait(doc_cfg, BackoffWait(doc_cfg, get_attempt + 1) + jitter)
    /\ UNCHANGED <<engine, ocr, call, http, writer, pool, idvars, adapters, logw, appends,
                   doc_cfg, doc_pc, doc_attempt, doc_elapsed, doc_exc>>

\* The exception o leaves _get_doc: the parser raised it, or get raised it, one
\* of retry_exceptions only after get gave up (scraper.py 175-176).
LeavesGetDoc(o) ==
    /\ o \in DocOutcomes \ Values
    /\ o \in retry_exceptions => GivesUp(doc_cfg, get_elapsed)

\* _get_doc returns a document or None and so does get_doc (scraper.py 106).
DocReturns(o) ==
    /\ doc_pc = "request"
    /\ o \in DocOutcomes \cap Values
    /\ doc_pc' = "returned"
    /\ UNCHANGED <<engine, ocr, call, http, writer, pool, idvars, adapters, logw, appends,
                   doc_cfg, doc_attempt, doc_elapsed, doc_exc, get_attempt, get_elapsed>>

\* An exception other than ParseError leaves _get_doc: `except ParseError`
\* (scraper.py 108) does not catch it and it leaves get_doc.
DocPropagates(o) ==
    /\ doc_pc = "request"
    /\ LeavesGetDoc(o)
    /\ ~Caught("get_doc", o)
    /\ doc_pc' = "raised"
    /\ doc_exc' = o
    /\ UNCHANGED <<engine, ocr, call, http, writer, pool, idvars, adapters, logw, appends,
                   doc_cfg, doc_attempt, doc_elapsed, get_attempt, get_elapsed>>

\* A ParseError after the waits of get_doc have exceeded stop_after_waiting is
\* raised again (scraper.py 109-110).
DocReraises(o) ==
    /\ doc_pc = "request"
    /\ LeavesGetDoc(o)
    /\ Caught("get_doc", o)
    /\ GivesUp(doc_cfg, doc_elapsed)
    /\ doc_pc' = "raised"
    /\ doc_exc' = o
    /\ UNCHANGED <<engine, ocr, call, http, writer, pool, idvars, adapters, logw, appends,
                   doc_cfg, doc_attempt, doc_elapsed, get_attempt, get_elapsed>>

\* A ParseError before that: get_doc backs off, sleeps and tries again
\* (scraper.py 112-128).
DocBackoff(o) ==
    /\ doc_pc = "request"
    /\ LeavesGetDoc(o)
    /\ Caught("get_doc", o)
    /\ ~GivesUp(doc_cfg, doc_elapsed)
    /\ doc_attempt < MaxAttempts
    /\ doc_attempt' = doc_attempt + 1
    /\ \E jitter \in Jitters(BackoffWait(doc_cfg, doc_attempt + 1)) :
          doc_elapsed' = doc_elapsed + CappedWait(doc_cfg, BackoffWait(doc_cfg, doc_attempt + 1) + jitter)
    /\ doc_exc' = o
    /\ doc_pc' = "try"
    /\ UNCHANGED <<engine, ocr, call, http, writer, pool, idvars, adapters, logw, appends,
                   doc_cfg, get_attempt, get_elapsed>>

NextNested ==
    \/ DocAttempt
    \/ \E o \in retry_exceptions : GetBackoff(o)
    \/ \E o \in DocOutcomes : DocReturns(o)
    \/ \E o \in DocOutcomes : DocPropagates(o)
    \/ \E o \in DocOutcomes : DocReraises(o)
    \/ \E o \in DocOutcomes : DocBackoff(o)

\* ---------------- Scraper.get with the scraper's retry settings (scraper.py 130-194)
ScraperKinds == {"scraper", "federal_court_of_australia", "federal_register_of_legislation"}

\* self.retry_exceptions: the default of scraper.py 26-33, in short, from which
\* federal_court_of_australia.py 45 removes ClientPayloadError.
RetryExceptionsOf(k) ==
    IF k = "federal_court_of_australia" THEN {"TimeoutError", "ClientResponseError"}
    ELSE {"TimeoutError", "ClientPayloadError", "ClientResponseError"}

\* self.retry_statuses: (429,) (scraper.py 34), to which
\* federal_register_of_legislation.py 38 adds 502 and 400.
RetryStatusesOf(k) ==
    IF k = "federal_register_of_legislation" THEN {429, 502, 400} ELSE {429}

\* The statuses a server answers with.
Statuses == {200, 400, 429, 502}

\* A faulty test that finds no status in retry_statuses.
RetriedStatusNever(st) == FALSE

\* response.status in self.retry_statuses (scraper.py 158).
RetriedStatus(st) == st \in RetryStatusesOf(scraper_kind)

\* What an attempt raises, with the status of the response if there was one:
\* ClientResponseError for a status in retry_statuses (scraper.py 158-165), or an
\* exception of the transport or any other.
AttemptRaises ==
    {<<"ClientResponseError", st>> : st \in {x \in Statuses : RetriedStatus(x)}}
        \cup {<<o, 0>> : o \in {"TimeoutError", "ClientPayloadError", "Exception"}}

\* The method is 'open' and the file is there (scraper.py 139-144): the file is
\* opened; reader.read() returns bytes, which `await` rejects with a TypeError;
\* Response is never called (it would itself raise a TypeError for the missing
\* keywords type and status, data.py 46-51). The exception leaves get: the branch
\* is outside the try.
OpenRaises ==
    /\ g_pc = "try"
    /\ req_method = "open"
    /\ g_pc' = "raised"
    /\ exc' = "TypeError"
    /\ UNCHANGED <<engine, ocr, writer, pool, idvars, adapters, logw, appends, nested,
                   fn, cfg, attempt, elapsed, wait, base_wait, prev_wait, sem_held,
                   scraper_kind, req_method, response>>

\* Any other method: the attempt starts (scraper.py 150-156).
HttpAttempt ==
    /\ req_method # "open"
    /\ Attempt

\* The response has a status outside retry_statuses: it is returned
\* (scraper.py 167-172).
HttpReturns(st) ==
    /\ g_pc = "request"
    /\ st \in Statuses
    /\ ~RetriedStatus(st)
    /\ g_pc' = "returned"
    /\ response' = st
    /\ sem_held' = FALSE
    /\ UNCHANGED <<engine, ocr, writer, pool, idvars, adapters, logw, appends, nested,
                   fn, cfg, attempt, elapsed, wait, base_wait, prev_wait, exc,
                   scraper_kind, req_method>>

\* The attempt raises an exception outside retry_exceptions: it leaves get.
HttpPropagates(o, st) ==
    /\ g_pc = "request"
    /\ <<o, st>> \in AttemptRaises
    /\ o \notin RetryExceptionsOf(scraper_kind)
    /\ g_pc' = "raised"
    /\ exc' = o
    /\ response' = st
    /\ sem_held' = FALSE
    /\ UNCHANGED <<engine, ocr, writer, pool, idvars, adapters, logw, appends, nested,
                   fn, cfg, attempt, elapsed, wait, base_wait, prev_wait,
                   scraper_kind, req_method>>

\* The attempt raises one of retry_exceptions after the waits have exceeded
\* stop_after_waiting: it is raised again (scraper.py 174-176).
HttpReraises(o, st) ==
    /\ g_pc = "request"
    /\ <<o, st>> \in AttemptRaises
    /\ o \in RetryExceptionsOf(scraper_kind)
    /\ GivesUp(cfg, elapsed)
    /\ g_pc' = "raised"
    /\ exc' = o
    /\ response' = st
    /\ sem_held' = FALSE
    /\ UNCHANGED <<engine, ocr, writer, pool, idvars, adapters, logw, appends, nested,
                   fn, cfg, attempt, elapsed, wait, base_wait, prev_wait,
                   scraper_kind, req_method>>

\* The attempt raises one of retry_exceptions before that: get backs off
\* (scraper.py 178-192).
HttpBackoff(o, st) ==
    /\ g_pc = "request"
    /\ <<o, st>> \in AttemptRaises
    /\ o \in RetryExceptionsOf(scraper_kind)
    /\ ~GivesUp(cfg, elapsed)
    /\ attempt < MaxAttempts
    /\ attempt' = attempt + 1
    /\ base_wait' = CappedWait(cfg, BackoffWait(cfg, attempt + 1))
    /\ \E jitter \in Jitters(BackoffWait(cfg, attempt + 1)) :
          wait' = CappedWait(cfg, BackoffWait(cfg, attempt + 1) + jitter)
    /\ prev_wait' = wait
    /\ exc' = o
    /\ response' = st
    /\ g_pc' = "sleep"
    /\ sem_held' = FALSE
    /\ UNCHANGED <<engine, ocr, writer, pool, idvars, adapters, logw, appends, nested,
                   fn, cfg, elapsed, scraper_kind, req_method>>

AllRaised == {"ClientResponseError", "TimeoutError", "ClientPayloadError", "Exception"} \X ({0} \cup Statuses)

NextHttp ==
    \/ OpenRaises
    \/ HttpAttempt
    \/ \E st \in Statuses : HttpReturns(st)
    \/ \E p \in AllRaised : HttpPropagates(p[1], p[2])
    \/ \E p \in AllRaised : HttpReraises(p[1], p[2])
    \/ \E p \in AllRaised : HttpBackoff(p[1], p[2])
    \/ Wake

\* ----------------------------- the bytes of the corpus file (creator.py 243-283)
\* A file is a sequence of bytes. The encoding of document i is two bytes (its head
\* and its tail, so that a record can be cut); NL is b'\n'.
Docs == 1..MaxDocs
NL == [doc |-> 0, part |-> "nl"]
Payload(i) == <<[doc |-> i, part |-> "head"], [doc |-> i, part |-> "tail"]>>

\* The lines a file object yields when iterated (creator.py 244): the bytes up to
\* and including each b'\n', and the bytes after the last b'\n' if there are any.
RECURSIVE SplitLines(_, _)
SplitLines(bytes, cur) ==
    IF bytes = <<>> THEN (IF cur = <<>> THEN <<>> ELSE <<[b |-> cur, nl |-> FALSE]>>)
    ELSE IF Head(bytes) = NL
         THEN <<[b |-> cur, nl |-> TRUE]>> \o SplitLines(Tail(bytes), <<>>)
         ELSE SplitLines(Tail(bytes), Append(cur, Head(bytes)))

\* document_decoder(line) succeeds (creator.py 246): the line is the encoding of one
\* document, followed by b'\n' or not.
IsDocument(line) == \E i \in Docs : line.b = Payload(i)
DocOf(line) == CHOOSE i \in Docs : line.b = Payload(i)

\* The loop of creator.py 244-256 over the lines of the file, every document being
\* in the flattened entries: the bytes written to the temporary file and the version
\* ids kept. A line is written as it was read (creator.py 254).
RECURSIVE RewriteBytes(_, _)
RewriteBytes(lines, kept) ==
    IF lines = <<>> THEN [bytes |-> <<>>, kept |-> kept]
    ELSE LET line == Head(lines)
             keep == IsDocument(line) /\ DocOf(line) \notin kept
             rest == RewriteBytes(Tail(lines), IF keep THEN kept \cup {DocOf(line)} ELSE kept)
         IN [bytes |-> (IF keep THEN line.b \o (IF line.nl THEN <<NL>> ELSE <<>>) ELSE <<>>) \o rest.bytes,
             kept |-> rest.kept]

WriterStopped == {"off", "closed", "raised", "killed"}

\* creator.py 243-277: the corpus is rewritten and replaced, the missing documents
\* are found and the corpus is opened to append.
WOpen ==
    /\ w_pc \in WriterStopped
    /\ w_run < MaxRuns
    /\ w_run' = w_run + 1
    /\ LET res == RewriteBytes(SplitLines(f_disk, <<>>), {})
       IN /\ f_disk' = res.bytes
          /\ w_base' = res.bytes
          /\ w_todo' = Docs \ res.kept
          /\ w_pc' = IF Docs \ res.kept = {} THEN "closed" ELSE "await"
    /\ f_buf' = <<>>
    /\ w_appended' = <<>>
    /\ UNCHANGED <<engine, ocr, call, appends, nested, http, pool, idvars, adapters, logw>>

\* A get_doc task returns a document: f.write(encoder(doc)); f.write(b'\n')
\* (creator.py 281-283).
WDoc(i) ==
    /\ w_pc = "await"
    /\ i \in w_todo
    /\ f_buf' = f_buf \o Payload(i) \o <<NL>>
    /\ w_todo' = w_todo \ {i}
    /\ w_appended' = Append(w_appended, i)
    /\ UNCHANGED <<engine, ocr, call, appends, nested, http, pool, idvars, adapters, logw, f_disk, w_pc, w_run, w_base>>

\* A get_doc task returns None (creator.py 281).
WNone(i) ==
    /\ w_pc = "await"
    /\ i \in w_todo
    /\ w_todo' = w_todo \ {i}
    /\ UNCHANGED <<engine, ocr, call, appends, nested, http, pool, idvars, adapters, logw, f_disk, f_buf, w_pc, w_run, w_appended, w_base>>

\* The buffer of the file object is full, or a write is larger than the buffer: the
\* first k bytes written and not flushed yet reach the file.
WFlush(k) ==
    /\ w_pc = "await"
    /\ k \in 1..Len(f_buf)
    /\ f_disk' = f_disk \o SubSeq(f_buf, 1, k)
    /\ f_buf' = SubSeq(f_buf, k + 1, Len(f_buf))
    /\ UNCHANGED <<engine, ocr, call, appends, nested, http, pool, idvars, adapters, logw, w_pc, w_run, w_todo, w_appended, w_base>>

\* A get_doc task raises: the with statement closes the file, which flushes it
\* (creator.py 277-279).
WRaises(i) ==
    /\ w_pc = "await"
    /\ i \in w_todo
    /\ f_disk' = f_disk \o f_buf
    /\ f_buf' = <<>>
    /\ w_pc' = "raised"
    /\ UNCHANGED <<engine, ocr, call, appends, nested, http, pool, idvars, adapters, logw, w_run, w_todo, w_appended, w_base>>

\* Every task has completed: the file is closed (creator.py 277, 285).
WClose ==
    /\ w_pc = "await"
    /\ w_todo = {}
    /\ f_disk' = f_disk \o f_buf
    /\ f_buf' = <<>>
    /\ w_pc' = "closed"
    /\ UNCHANGED <<engine, ocr, call, appends, nested, http, pool, idvars, adapters, logw, w_run, w_todo, w_appended, w_base>>

\* The process is killed: what was not flushed is lost.
WKill ==
    /\ w_pc = "await"
    /\ f_buf' = <<>>
    /\ w_pc' = "killed"
    /\ UNCHANGED <<engine, ocr, call, appends, nested, http, pool, idvars, adapters, logw, f_disk, w_run, w_todo, w_appended, w_base>>

NextWriter ==
    \/ WOpen
    \/ \E i \in Docs : WDoc(i)
    \/ \E i \in Docs : WNone(i)
    \/ \E k \in 1..(3 * MaxDocs) : WFlush(k)
    \/ \E i \in Docs : WRaises(i)
    \/ WClose
    \/ WKill

\* --------------------------- the semaphore of a scraper (scraper.py 56, 154)
Tasks == 1..MaxTasks

InFlight == {t \in Tasks : t_pc[t] = "in_flight"}

\* A task calls Scraper.get and reaches `async with self.semaphore` (scraper.py 154).
PGet(t) ==
    /\ t_pc[t] = "idle"
    /\ t_pc' = [t_pc EXCEPT ![t] = "waiting"]
    /\ UNCHANGED <<engine, ocr, call, appends, nested, http, writer, idvars, adapters, logw, sem_value, t_attempt>>

\* A faulty acquire that does not wait for the counter to be positive.
PAcquireAtOnce(t) ==
    /\ t_pc[t] = "waiting"
    /\ sem_value' = sem_value - 1
    /\ t_pc' = [t_pc EXCEPT ![t] = "in_flight"]
    /\ UNCHANGED <<engine, ocr, call, appends, nested, http, writer, idvars, adapters, logw, t_attempt>>

\* Semaphore.acquire returns (on entering `async with`): the counter was positive
\* and is decremented.
PAcquire(t) ==
    /\ t_pc[t] = "waiting"
    /\ sem_value > 0
    /\ sem_value' = sem_value - 1
    /\ t_pc' = [t_pc EXCEPT ![t] = "in_flight"]
    /\ UNCHANGED <<engine, ocr, call, appends, nested, http, writer, idvars, adapters, logw, t_attempt>>

\* The response is read and returned (scraper.py 166-171); leaving `async with`
\* releases the semaphore.
PReturns(t) ==
    /\ t_pc[t] = "in_flight"
    /\ sem_value' = sem_value + 1
    /\ t_pc' = [t_pc EXCEPT ![t] = "done"]
    /\ UNCHANGED <<engine, ocr, call, appends, nested, http, writer, idvars, adapters, logw, t_attempt>>

\* An exception leaves `async with` and get (scraper.py 173-175): one that is not
\* retried, or one raised when the waiting time is spent.
PRaises(t) ==
    /\ t_pc[t] = "in_flight"
    /\ sem_value' = sem_value + 1
    /\ t_pc' = [t_pc EXCEPT ![t] = "raised"]
    /\ UNCHANGED <<engine, ocr, call, appends, nested, http, writer, idvars, adapters, logw, t_attempt>>

\* A faulty retry that sleeps inside `async with`, the semaphore still held.
PRetryHolding(t) ==
    /\ t_pc[t] = "in_flight"
    /\ t_attempt[t] < MaxRetries
    /\ t_attempt' = [t_attempt EXCEPT ![t] = @ + 1]
    /\ t_pc' = [t_pc EXCEPT ![t] = "sleeping"]
    /\ UNCHANGED <<engine, ocr, call, appends, nested, http, writer, idvars, adapters, logw, sem_value>>

\* A retried exception leaves `async with` and the task sleeps (scraper.py 173-192).
PRetry(t) ==
    /\ t_pc[t] = "in_flight"
    /\ t_attempt[t] < MaxRetries
    /\ sem_value' = sem_value + 1
    /\ t_attempt' = [t_attempt EXCEPT ![t] = @ + 1]
    /\ t_pc' = [t_pc EXCEPT ![t] = "sleeping"]
    /\ UNCHANGED <<engine, ocr, call, appends, nested, http, writer, idvars, adapters, logw>>

\* asyncio.sleep returns and the loop reaches `async with` again (scraper.py 192, 150).
PWake(t) ==
    /\ t_pc[t] = "sleeping"
    /\ t_pc' = [t_pc EXCEPT ![t] = "waiting"]
    /\ UNCHANGED <<engine, ocr, call, appends, nested, http, writer, idvars, adapters, logw, sem_value, t_attempt>>

NextPool ==
    \E t \in Tasks :
        \/ PGet(t)
        \/ PAcquire(t)
        \/ PReturns(t)
        \/ PRaises(t)
        \/ PRetry(t)
        \/ PWake(t)

\* ------------------------------------------- Entry.format_id (data.py 89-101)
\* Strings are sequences of the characters of a small alphabet.
Alphabet == {"x", ":"}
Colon == <<":">>

Strings == UNION {[1..n -> Alphabet] : n \in 0..MaxIdLen}

\* Python's s[:n].
Slice(str, n) == SubSeq(str, 1, IF n < Len(str) THEN n ELSE Len(str))

\* A faulty format_id that adds the prefix whatever the id.
FormatIdAlways(version_id, source) == source \o Colon \o version_id

\* A faulty format_id that adds no prefix.
FormatIdNever(version_id, source) == version_id

\* Entry.format_id (data.py 93-101).
format_id(version_id, source) ==
    IF Slice(version_id, Len(source) + 1) = source \o Colon
    THEN version_id
    ELSE source \o Colon \o version_id

\* Entry.__post_init__ (data.py 89-91) for the first entry.
FormatA ==
    /\ "a" \notin formatted
    /\ out_a' = format_id(id_a, src_a)
    /\ formatted' = formatted \cup {"a"}
    /\ UNCHANGED <<engine, ocr, call, appends, nested, http, writer, pool, adapters, logw, id_a, src_a, id_b, src_b, out_b, again_a>>

\* Entry.__post_init__ for the second entry.
FormatB ==
    /\ "b" \notin formatted
    /\ out_b' = format_id(id_b, src_b)
    /\ formatted' = formatted \cup {"b"}
    /\ UNCHANGED <<engine, ocr, call, appends, nested, http, writer, pool, adapters, logw, id_a, src_a, id_b, src_b, out_a, again_a>>

\* The first entry is decoded from an index file: __post_init__ formats the
\* formatted id once more.
FormatAgainA ==
    /\ "a" \in formatted
    /\ "again" \notin formatted
    /\ again_a' = format_id(out_a, src_a)
    /\ formatted' = formatted \cup {"again"}
    /\ UNCHANGED <<engine, ocr, call, appends, nested, http, writer, pool, adapters, logw, id_a, src_a, id_b, src_b, out_a, out_b>>

NextIds == FormatA \/ FormatB \/ FormatAgainA

\* ------------------------ the adapters' get_index (scrapers/*.py, creator.py 209-225)
\* Three adapters that treat a page without entries differently.
Adapters == {"federal_register_of_legislation", "federal_court_of_australia",
             "tasmanian_legislation"}

\* What Scraper.get gives for an index request: a page with entries, a page
\* without any, or aiohttp's ClientPayloadError once the retries are spent.
Pages == {"entries", "none", "unreadable"}

PageEntries(page) == IF page = "entries" THEN {"e"} ELSE {}

Returned(es, warned) == [raised |-> FALSE, exc |-> "none", entries |-> es, warned |-> warned]
Raised(e) == [raised |-> TRUE, exc |-> e, entries |-> {}, warned |-> FALSE]

\* A faulty get_index that returns what it extracted, whatever the adapter.
GetIndexOfNeverRaises(a, page) == Returned(PageEntries(page), FALSE)

\* get_index of each adapter: federal_register_of_legislation.py 165-191,
\* federal_court_of_australia.py 112-136, tasmanian_legislation.py 62-88.
GetIndexOf(a, page) ==
    CASE a = "federal_register_of_legislation" ->
            IF page = "unreadable" THEN Raised("ClientPayloadError")
            ELSE IF PageEntries(page) = {} THEN Raised("Exception")
            ELSE Returned(PageEntries(page), FALSE)
      [] a = "federal_court_of_australia" ->
            IF page = "unreadable" THEN Returned({}, TRUE)
            ELSE Returned(PageEntries(page), FALSE)
      [] a = "tasmanian_legislation" ->
            IF page = "unreadable" THEN Raised("ClientPayloadError")
            ELSE Returned(PageEntries(page), FALSE)

\* create reaches the indexing of the unindexed requests (creator.py 209-218).
IxStart ==
    /\ ix_pc \in {"off", "done", "halted"}
    /\ ix_run < MaxRuns
    /\ ix_run' = ix_run + 1
    /\ ix_pc' = "indexing"
    /\ ix_err' = "none"
    /\ ix_last' = [adapter |-> "none", page |-> "none", warned |-> FALSE]
    /\ UNCHANGED <<engine, ocr, call, appends, nested, http, writer, pool, idvars, logw, ix_file>>

\* One _get_index task completes and its batch is appended to the index file
\* of its source (creator.py 176-183, 221-225).
IxGetIndex(a, page) ==
    /\ ix_pc = "indexing"
    /\ Len(ix_file) < MaxBatches
    /\ ~GetIndexOf(a, page).raised
    /\ ix_file' = Append(ix_file, [source |-> a, entries |-> GetIndexOf(a, page).entries])
    /\ ix_last' = [adapter |-> a, page |-> page, warned |-> GetIndexOf(a, page).warned]
    /\ UNCHANGED <<engine, ocr, call, appends, nested, http, writer, pool, idvars, logw, ix_pc, ix_run, ix_err>>

\* get_index raises: the exception leaves alive_as_completed and create, and
\* nothing is appended.
IxGetIndexRaises(a, page) ==
    /\ ix_pc = "indexing"
    /\ GetIndexOf(a, page).raised
    /\ ix_pc' = "halted"
    /\ ix_err' = GetIndexOf(a, page).exc
    /\ ix_last' = [adapter |-> a, page |-> page, warned |-> FALSE]
    /\ UNCHANGED <<engine, ocr, call, appends, nested, http, writer, pool, idvars, logw, ix_file, ix_run>>

\* Every task has completed.
IxEnd ==
    /\ ix_pc = "indexing"
    /\ ix_pc' = "done"
    /\ UNCHANGED <<engine, ocr, call, appends, nested, http, writer, pool, idvars, logw, ix_file, ix_run, ix_err, ix_last>>

NextAdapters ==
    \/ IxStart
    \/ \E a \in Adapters, page \in Pages : IxGetIndex(a, page)
    \/ \E a \in Adapters, page \in Pages : IxGetIndexRaises(a, page)
    \/ IxEnd

\* --------------- the bytes of an index file (creator.py 147-173, 217-225)
Requests == 1..MaxReqs

\* entries_decoder(line) succeeds (helpers.py 74): the line is the encoding of one
\* batch, followed by b'\n' or not. The encoding of the batch of request r is
\* written like that of a document: Payload(r).
IsBatch(line) == \E r \in Requests : line.b = Payload(r)
BatchOf(line) == CHOOSE r \in Requests : line.b = Payload(r)

LogLines == SplitLines(l_disk, <<>>)

LogStopped == {"off", "done", "raised", "killed", "failed"}

\* _get_unindexed_index_reqs loads the file (creator.py 147-173), every batch of
\* which is of a current request and within the interval, and the file is opened
\* to append when requests are left (creator.py 209-218).
LOpen ==
    /\ l_pc \in LogStopped
    /\ l_run < MaxLogRuns
    /\ \A n \in DOMAIN LogLines : IsBatch(LogLines[n])
    /\ l_run' = l_run + 1
    /\ l_todo' = Requests \ {BatchOf(LogLines[n]) : n \in DOMAIN LogLines}
    /\ l_pc' = IF l_todo' = {} THEN "done" ELSE "indexing"
    /\ l_buf' = <<>>
    /\ l_before' = l_before \cup l_appended
    /\ l_appended' = {}
    /\ UNCHANGED <<engine, ocr, call, appends, nested, http, writer, pool, idvars, adapters, l_disk>>

\* load_jsonl meets a line that is no batch: the DecodeError leaves create
\* (helpers.py 74, creator.py 157).
LOpenFails ==
    /\ l_pc \in LogStopped
    /\ l_run < MaxLogRuns
    /\ \E n \in DOMAIN LogLines : ~IsBatch(LogLines[n])
    /\ l_run' = l_run + 1
    /\ l_pc' = "failed"
    /\ l_before' = l_before \cup l_appended
    /\ l_appended' = {}
    /\ UNCHANGED <<engine, ocr, call, appends, nested, http, writer, pool, idvars, adapters, l_disk, l_buf, l_todo>>

\* A _get_index task completes: index_files[source].write(encoder(index));
\* index_files[source].write(b'\n') (creator.py 221-225).
LBatch(r) ==
    /\ l_pc = "indexing"
    /\ r \in l_todo
    /\ l_buf' = l_buf \o Payload(r) \o <<NL>>
    /\ l_todo' = l_todo \ {r}
    /\ l_appended' = l_appended \cup {r}
    /\ UNCHANGED <<engine, ocr, call, appends, nested, http, writer, pool, idvars, adapters, l_disk, l_pc, l_run, l_before>>

\* The buffer of the file object is full, or a write is larger than the buffer: the
\* first k bytes written and not flushed yet reach the file.
LFlush(k) ==
    /\ l_pc = "indexing"
    /\ k \in 1..Len(l_buf)
    /\ l_disk' = l_disk \o SubSeq(l_buf, 1, k)
    /\ l_buf' = SubSeq(l_buf, k + 1, Len(l_buf))
    /\ UNCHANGED <<engine, ocr, call, appends, nested, http, writer, pool, idvars, adapters, l_pc, l_run, l_todo, l_appended, l_before>>

\* A _get_index task raises: the ExitStack closes the file, which flushes it
\* (creator.py 217-221).
LRaises(r) ==
    /\ l_pc = "indexing"
    /\ r \in l_todo
    /\ l_disk' = l_disk \o l_buf
    /\ l_buf' = <<>>
    /\ l_pc' = "raised"
    /\ UNCHANGED <<engine, ocr, call, appends, nested, http, writer, pool, idvars, adapters, l_run, l_todo, l_appended, l_before>>

\* Every task has completed: the ExitStack closes the file.
LClose ==
    /\ l_pc = "indexing"
    /\ l_todo = {}
    /\ l_disk' = l_disk \o l_buf
    /\ l_buf' = <<>>
    /\ l_pc' = "done"
    /\ UNCHANGED <<engine, ocr, call, appends, nested, http, writer, pool, idvars, adapters, l_run, l_todo, l_appended, l_before>>

\* The process is killed: what was not flushed is lost.
LKill ==
    /\ l_pc = "indexing"
    /\ l_buf' = <<>>
    /\ l_pc' = "killed"
    /\ UNCHANGED <<engine, ocr, call, appends, nested, http, writer, pool, idvars, adapters, l_disk, l_run, l_todo, l_appended, l_before>>

NextLog ==
    \/ LOpen
    \/ LOpenFails
    \/ \E r \in Requests : LBatch(r)
    \/ \E k \in 1..(3 * MaxReqs) : LFlush(k)
    \/ \E r \in Requests : LRaises(r)
    \/ LClose
    \/ LKill

\* ------- the appends of concurrent fetches to one file (creator.py 217-225, 277-283;
\* ------- sources/federal_court_of_australia.py 45-64 with the LOCK of
\* ------- open_australian_legal_corpus_creator.py 24, 52)
\* In creator.py the appends are made by the one loop over alive_as_completed, which
\* takes a completed task and writes its record and b'\n' with no await in between;
\* in the earlier threaded program each thread appends under one Lock. a_writer is
\* the task the loop has taken, or the thread that holds the Lock.

\* The fetch of task t completes.
AFetched(t) ==
    /\ a_pc[t] = "fetch"
    /\ a_pc' = [a_pc EXCEPT ![t] = "ready"]
    /\ UNCHANGED <<engine, ocr, call, nested, http, writer, pool, idvars, adapters, logw, a_file, a_writer>>

\* A faulty append that does not wait for the append under way to end.
ATakeAtOnce(t) ==
    /\ a_pc[t] = "ready"
    /\ a_writer' = t
    /\ a_pc' = [a_pc EXCEPT ![t] = "taken"]
    /\ UNCHANGED <<engine, ocr, call, nested, http, writer, pool, idvars, adapters, logw, a_file>>

\* The loop takes the result of a completed task (creator.py 221-222, 278-279), or
\* the thread enters `with lock` (sources/federal_court_of_australia.py 61): no
\* other append is under way.
ATake(t) ==
    /\ a_pc[t] = "ready"
    /\ a_writer = 0
    /\ a_writer' = t
    /\ a_pc' = [a_pc EXCEPT ![t] = "taken"]
    /\ UNCHANGED <<engine, ocr, call, nested, http, writer, pool, idvars, adapters, logw, a_file>>

\* The result taken is None: nothing is written (creator.py 281; the suppressed
\* UnicodeDecodeError of sources/federal_court_of_australia.py 48).
ASkip(t) ==
    /\ a_pc[t] = "taken"
    /\ a_pc' = [a_pc EXCEPT ![t] = "skipped"]
    /\ a_writer' = IF a_writer = t THEN 0 ELSE a_writer
    /\ UNCHANGED <<engine, ocr, call, nested, http, writer, pool, idvars, adapters, logw, a_file>>

\* f.write(encoder(doc)) (creator.py 224, 282).
AWriteRecord(t) ==
    /\ a_pc[t] = "taken"
    /\ a_file' = a_file \o Payload(t)
    /\ a_pc' = [a_pc EXCEPT ![t] = "record"]
    /\ UNCHANGED <<engine, ocr, call, nested, http, writer, pool, idvars, adapters, logw, a_writer>>

\* f.write(b'\n') (creator.py 225, 283); the loop goes on to the next result, or
\* the thread leaves `with lock`.
AWriteNewline(t) ==
    /\ a_pc[t] = "record"
    /\ a_file' = Append(a_file, NL)
    /\ a_pc' = [a_pc EXCEPT ![t] = "end"]
    /\ a_writer' = IF a_writer = t THEN 0 ELSE a_writer
    /\ UNCHANGED <<engine, ocr, call, nested, http, writer, pool, idvars, adapters, logw>>

NextAppends ==
    \E t \in Tasks :
        \/ AFetched(t)
        \/ ATake(t)
        \/ ASkip(t)
        \/ AWriteRecord(t)
        \/ AWriteNewline(t)

\* ------------------------------------------------- pdf2txt (ocr.py 15-56)
\* The capacity of a semaphore given to pdf2txt, and batch_size.
OcrCapacity == 2
BatchSize == 2

\* The calls of pdf2txt that are inside `async with (semaphore or nullcontext())`
\* (ocr.py 39-48).
Converting == {t \in Tasks : o_pc[t] \in {"loop", "ocr"}}

\* The call enters the block: with a semaphore it acquires it, and waits while
\* its value is 0; with None the context is a nullcontext and nothing is waited
\* for (ocr.py 39).
OEnter(t) ==
    /\ o_pc[t] = "call"
    /\ ocr_semaphore = "Semaphore" => o_value > 0
    /\ o_value' = IF ocr_semaphore = "Semaphore" THEN o_value - 1 ELSE o_value
    /\ o_pc' = [o_pc EXCEPT ![t] = "loop"]
    /\ UNCHANGED <<engine, call, writer, pool, idvars, adapters, logw, appends, nested, http,
                   ocr_semaphore, o_left, o_imgs>>

\* The next batch of pages is rendered into images (ocr.py 40-42).
ORender(t) ==
    /\ o_pc[t] = "loop"
    /\ o_left[t] > 0
    /\ o_imgs' = [o_imgs EXCEPT ![t] = IF o_left[t] < BatchSize THEN o_left[t] ELSE BatchSize]
    /\ o_pc' = [o_pc EXCEPT ![t] = "ocr"]
    /\ UNCHANGED <<engine, call, writer, pool, idvars, adapters, logw, appends, nested, http,
                   ocr_semaphore, o_value, o_left>>

\* The images are converted in the thread pool and deleted (ocr.py 44-48).
OConvert(t) ==
    /\ o_pc[t] = "ocr"
    /\ o_left' = [o_left EXCEPT ![t] = o_left[t] - o_imgs[t]]
    /\ o_imgs' = [o_imgs EXCEPT ![t] = 0]
    /\ o_pc' = [o_pc EXCEPT ![t] = "loop"]
    /\ UNCHANGED <<engine, call, writer, pool, idvars, adapters, logw, appends, nested, http,
                   ocr_semaphore, o_value>>

\* No page is left: the block is left, a semaphore is released, the text is
\* returned (ocr.py 50-56).
OReturn(t) ==
    /\ o_pc[t] = "loop"
    /\ o_left[t] = 0
    /\ o_value' = IF ocr_semaphore = "Semaphore" THEN o_value + 1 ELSE o_value
    /\ o_pc' = [o_pc EXCEPT ![t] = "done"]
    /\ UNCHANGED <<engine, call, writer, pool, idvars, adapters, logw, appends, nested, http,
                   ocr_semaphore, o_left, o_imgs>>

\* Rendering or conversion raises: the exception leaves the block, a semaphore is
\* released, the images go with the frame.
ORaises(t) ==
    /\ o_pc[t] \in {"loop", "ocr"}
    /\ o_left[t] > 0
    /\ o_value' = IF ocr_semaphore = "Semaphore" THEN o_value + 1 ELSE o_value
    /\ o_imgs' = [o_imgs EXCEPT ![t] = 0]
    /\ o_pc' = [o_pc EXCEPT ![t] = "raised"]
    /\ UNCHANGED <<engine, call, writer, pool, idvars, adapters, logw, appends, nested, http,
                   ocr_semaphore, o_left>>

NextOcr ==
    \/ \E t \in Tasks : OEnter(t)
    \/ \E t \in Tasks : ORender(t)
    \/ \E t \in Tasks : OConvert(t)
    \/ \E t \in Tasks : OReturn(t)
    \/ \E t \in Tasks : ORaises(t)

\* ------------------------------------------------------------ initial states
\* The sequences of at most n elements of S.
RECURSIVE SeqsUpTo(_, _)
SeqsUpTo(S, n) ==
    IF n = 0 THEN {<<>>}
    ELSE LET shorter == SeqsUpTo(S, n - 1)
         IN shorter \cup {Append(q, x) : q \in shorter, x \in S}

\* The lines a corpus file left by earlier processes (or edited by hand) holds.
InitLines == {DocLine("s1:v1", 0), DocLine("s1:v2", 0),
              DocLine("s2:w1", 0), DocLine("s2:w1", 1), BadLine}

\* The scrapers' refresh intervals, as Scraper.__init__ stores its arguments.
\* The arguments the scrapers are constructed with (scraper.py 22-23): the first
\* source with True or False for each interval, the second with the defaults (None,
\* which is stored as one day, as a timedelta of one day is).
InitKwargs ==
    {[s \in Sources |-> IF s = "s1" THEN [indices |-> a, index |-> b]
                        ELSE [indices |-> "none", index |-> "none"]] :
        a \in {"always", "never"}, b \in {"always", "never"}}

\* What Scraper.__init__ stores for them (scraper.py 50, 53).
StoredIntervals(kw) ==
    [s \in Sources |-> [indices |-> ScraperInit(kw[s].indices), index |-> ScraperInit(kw[s].index)]]

InitPolicies == {StoredIntervals(kw) : kw \in InitKwargs}

\* versions.json: missing, or written by a Creator of this or of another version.
InitVersions ==
    {[ex |-> FALSE, v |-> DATA_VERSIONS], [ex |-> TRUE, v |-> DATA_VERSIONS]}
    \cup {[ex |-> TRUE, v |-> [DATA_VERSIONS EXCEPT ![n] = 0]] : n \in {"corpus", "index", "indices"}}

\* The caches of index requests and the indices earlier processes left: a cache
\* holds what get_index_reqs returned then, an index one batch per request.
InitCaches(s) ==
    {NoCache} \cup {[ex |-> TRUE, reqs |-> rs, mtime |-> t] : rs \in SUBSET ReqsOf(s), t \in {0, 1}}

InitLogs(s) ==
    {NoLog} \cup
    {[ex |-> TRUE, lines |-> q] :
        q \in {q \in SeqsUpTo({MkEntries(r, t) : r \in ReqsOf(s), t \in {0, 1}}, Cardinality(ReqsOf(s))) :
                 \A i, j \in DOMAIN q : i # j => q[i].request # q[j].request}}

InitProcess ==
    /\ pc = "off"
    /\ now = Day + 1
    /\ scrapers = {}
    /\ index_reqs = EmptyMap
    /\ unindexed = {}
    /\ entries = EmptyMap
    /\ pos = 1
    /\ corpus_version_ids = <<>>
    /\ missing = {}
    /\ warnings = 0
    /\ err = "none"
    /\ corpus0 = <<>>
    /\ corpus1 = <<>>
    /\ index0 = [s \in Sources |-> NoLog]
    /\ appended = <<>>
    /\ returned = EmptyMap
    /\ at = "none"
    /\ prev = [done |-> FALSE, scrapers |-> {}, none |-> {}, appended |-> {}]
    /\ expired = FALSE
    /\ purged = FALSE
    /\ tmp = NoTmp

\* What the sources answer: the first source lists both of its index requests, one
\* of them or none; one of its documents may be missing.
InitWebReqs(choices) == {[s \in Sources |-> IF s = "s1" THEN rs ELSE ReqsOf(s)] : rs \in choices}
InitWebDoc(choices) ==
    {[v \in Vids |-> IF v = "s1:v3" THEN a ELSE "doc"] : a \in choices}

DefaultKwargs == [s \in Sources |-> [indices |-> "none", index |-> "none"]]
DefaultPolicy == [s \in Sources |-> [indices |-> ScraperInit("none"), index |-> ScraperInit("none")]]

\* Any corpus file, nothing indexed yet.
InitAnyCorpus ==
    /\ corpus \in SeqsUpTo(InitLines, MaxCorpus)
    /\ versions = [ex |-> TRUE, v |-> DATA_VERSIONS]
    /\ indices = [s \in Sources |-> NoCache]
    /\ index = [s \in Sources |-> NoLog]
    /\ kwargs = DefaultKwargs
    /\ policy = DefaultPolicy
    /\ webReqs \in InitWebReqs({{"A", "B"}})
    /\ webDoc \in InitWebDoc({"doc", "missing"})

\* Any cache and index of the first source, under any refresh intervals.
InitAnyIndex ==
    /\ corpus = <<DocLine("s1:v1", 0), BadLine, DocLine("s1:v3", 0)>>
    /\ versions = [ex |-> TRUE, v |-> DATA_VERSIONS]
    /\ indices \in {[s \in Sources |-> IF s = "s1" THEN c ELSE NoCache] :
                      c \in {c \in InitCaches("s1") : c.ex => c.reqs # {}}}
    /\ index \in {[s \in Sources |-> IF s = "s1" THEN l ELSE NoLog] : l \in InitLogs("s1")}
    /\ kwargs \in InitKwargs
    /\ policy = StoredIntervals(kwargs)
    /\ webReqs \in InitWebReqs({{"A", "B"}, {"A"}, {}})
    /\ webDoc \in InitWebDoc({"doc"})

\* An index file of the first source with a line that cannot be decoded, under
\* any refresh intervals.
InitBadIndex ==
    /\ corpus = <<DocLine("s1:v1", 0)>>
    /\ versions = [ex |-> TRUE, v |-> DATA_VERSIONS]
    /\ indices = [s \in Sources |-> NoCache]
    /\ index \in {[s \in Sources |-> IF s = "s1" THEN [ex |-> TRUE, lines |-> q] ELSE NoLog] :
                    q \in {<<BadBatch>>, <<MkEntries("A", 1), BadBatch>>}}
    /\ kwargs \in InitKwargs
    /\ policy = StoredIntervals(kwargs)
    /\ webReqs \in InitWebReqs({{"A", "B"}})
    /\ webDoc \in InitWebDoc({"doc"})

\* Any versions.json, every kind of file on disk.
InitAnyVersions ==
    /\ corpus = <<DocLine("s1:v1", 0), DocLine("s2:w1", 0)>>
    /\ versions \in InitVersions
    /\ indices = [s \in Sources |-> [ex |-> TRUE, reqs |-> ReqsOf(s), mtime |-> 1]]
    /\ index = [s \in Sources |->
                  [ex |-> TRUE, lines |-> IF s = "s1" THEN <<MkEntries("A", 1)>> ELSE <<MkEntries("C", 1)>>]]
    /\ kwargs = DefaultKwargs
    /\ policy = DefaultPolicy
    /\ webReqs \in InitWebReqs({{"A", "B"}})
    /\ webDoc \in InitWebDoc({"doc"})

\* No call of Scraper.get or Scraper.get_doc is followed.
InitNoCall ==
    /\ fn = "none"
    /\ cfg = [num |-> 5, den |-> 4, max_wait |-> 0, stop_after_waiting |-> 0]
    /\ g_pc = "none"
    /\ attempt = 0
    /\ elapsed = 0
    /\ wait = 0
    /\ base_wait = 0
    /\ prev_wait = 0
    /\ sem_held = FALSE
    /\ exc = "none"

\* One call of Scraper.get or Scraper.get_doc: wait_base is 1.25 (scraper.py 74) or
\* 2.25 (high_court_of_australia.py 44), max_wait and stop_after_waiting a few seconds.
InitCall ==
    /\ fn \in {"get", "get_doc"}
    /\ cfg \in {[num |-> n, den |-> 4, max_wait |-> m * Unit(4), stop_after_waiting |-> t * Unit(4)] :
                  n \in {5, 9}, m \in {2, 3}, t \in {3, 5}}
    /\ g_pc = "try"
    /\ attempt = 0
    /\ elapsed = 0
    /\ wait = 0
    /\ base_wait = 0
    /\ prev_wait = 0
    /\ sem_held = FALSE
    /\ exc = "none"

\* No Creator is constructed.
InitNoCreator ==
    /\ InitProcess
    /\ run = MaxRuns
    /\ corpus = <<>>
    /\ versions = [ex |-> FALSE, v |-> DATA_VERSIONS]
    /\ indices = [s \in Sources |-> NoCache]
    /\ index = [s \in Sources |-> NoLog]
    /\ kwargs = DefaultKwargs
    /\ policy = DefaultPolicy
    /\ webReqs = [s \in Sources |-> {}]
    /\ webDoc = [v \in Vids |-> "missing"]

\* No semaphore is followed.
InitNoPool ==
    /\ sem_value = 0
    /\ t_pc = [t \in Tasks |-> "none"]
    /\ t_attempt = [t \in Tasks |-> 0]

\* No version id is formatted.
InitNoIds ==
    /\ id_a = <<>>
    /\ src_a = <<>>
    /\ id_b = <<>>
    /\ src_b = <<>>
    /\ out_a = <<>>
    /\ out_b = <<>>
    /\ again_a = <<>>
    /\ formatted = {"none"}

\* No call of pdf2txt is followed.
InitNoOcr ==
    /\ ocr_semaphore = "None"
    /\ o_value = 0
    /\ o_pc = [t \in Tasks |-> "none"]
    /\ o_left = [t \in Tasks |-> 0]
    /\ o_imgs = [t \in Tasks |-> 0]

\* No call of get with its retry settings is followed.
InitNoHttp ==
    /\ scraper_kind = "none"
    /\ req_method = "none"
    /\ response = 0

\* No call of get_doc with its calls of get is followed.
InitNoNested ==
    /\ doc_cfg = [num |-> 5, den |-> 4, max_wait |-> 0, stop_after_waiting |-> 0]
    /\ doc_pc = "none"
    /\ doc_attempt = 0
    /\ doc_elapsed = 0
    /\ doc_exc = "none"
    /\ get_attempt = 0
    /\ get_elapsed = 0

\* No concurrent appends are followed.
InitNoAppends ==
    /\ a_file = <<>>
    /\ a_pc = [t \in Tasks |-> "none"]
    /\ a_writer = 0

\* The bytes of no index file are followed.
InitNoLog ==
    /\ l_disk = <<>>
    /\ l_buf = <<>>
    /\ l_pc = "none"
    /\ l_run = 0
    /\ l_todo = {}
    /\ l_appended = {}
    /\ l_before = {}

\* No adapter is followed.
InitNoAdapters ==
    /\ ix_file = <<>>
    /\ ix_pc = "none"
    /\ ix_run = 0
    /\ ix_err = "none"
    /\ ix_last = [adapter |-> "none", page |-> "none", warned |-> FALSE]

\* The bytes of the corpus file are not followed.
InitNoWriter ==
    /\ f_disk = <<>>
    /\ f_buf = <<>>
    /\ w_pc = "none"
    /\ w_run = 0
    /\ w_todo = {}
    /\ w_appended = <<>>
    /\ w_base = <<>>

\* The corpus file is empty and no process has run yet.
InitWriter ==
    /\ InitNoAppends
    /\ InitNoNested
    /\ InitNoHttp
    /\ InitNoOcr
    /\ InitNoLog
    /\ InitNoAdapters
    /\ InitNoCreator
    /\ InitNoCall
    /\ InitNoPool
    /\ InitNoIds
    /\ f_disk = <<>>
    /\ f_buf = <<>>
    /\ w_pc = "off"
    /\ w_run = 0
    /\ w_todo = {}
    /\ w_appended = <<>>
    /\ w_base = <<>>

\* The semaphore as Scraper.__init__ creates it (scraper.py 56), every task
\* dispatched and none of them started.
InitPool ==
    /\ InitNoAppends
    /\ InitNoNested
    /\ InitNoHttp
    /\ InitNoOcr
    /\ InitNoLog
    /\ InitNoAdapters
    /\ InitNoCreator
    /\ InitNoCall
    /\ InitNoWriter
    /\ InitNoIds
    /\ sem_value = SemaphoreValue
    /\ t_pc = [t \in Tasks |-> "idle"]
    /\ t_attempt = [t \in Tasks |-> 0]

\* The index files are empty and no run has started.
InitAdapters ==
    /\ InitNoAppends
    /\ InitNoNested
    /\ InitNoHttp
    /\ InitNoOcr
    /\ InitNoLog
    /\ InitNoCreator
    /\ InitNoCall
    /\ InitNoWriter
    /\ InitNoPool
    /\ InitNoIds
    /\ ix_file = <<>>
    /\ ix_pc = "off"
    /\ ix_run = 0
    /\ ix_err = "none"
    /\ ix_last = [adapter |-> "none", page |-> "none", warned |-> FALSE]

\* There is no index file yet and no process has run.
InitLog ==
    /\ InitNoAppends
    /\ InitNoNested
    /\ InitNoHttp
    /\ InitNoOcr
    /\ InitNoCreator
    /\ InitNoCall
    /\ InitNoWriter
    /\ InitNoPool
    /\ InitNoIds
    /\ InitNoAdapters
    /\ l_disk = <<>>
    /\ l_buf = <<>>
    /\ l_pc = "off"
    /\ l_run = 0
    /\ l_todo = {}
    /\ l_appended = {}
    /\ l_before = {}

\* The file is empty and every fetch is under way.
InitAppends ==
    /\ InitNoCreator
    /\ InitNoCall
    /\ InitNoWriter
    /\ InitNoPool
    /\ InitNoIds
    /\ InitNoAdapters
    /\ InitNoLog
    /\ InitNoNested
    /\ InitNoHttp
    /\ InitNoOcr
    /\ a_file = <<>>
    /\ a_pc = [t \in Tasks |-> "fetch"]
    /\ a_writer = 0

\* One call of get_doc: wait_base is 1.25 (scraper.py 74) or 2.25
\* (high_court_of_australia.py 44), max_wait and stop_after_waiting a few seconds.
InitNested ==
    /\ InitNoCreator
    /\ InitNoCall
    /\ InitNoWriter
    /\ InitNoPool
    /\ InitNoIds
    /\ InitNoAdapters
    /\ InitNoLog
    /\ InitNoAppends
    /\ InitNoHttp
    /\ InitNoOcr
    /\ doc_cfg \in {[num |-> n, den |-> 4, max_wait |-> 2 * Unit(4), stop_after_waiting |-> 3 * Unit(4)] :
                      n \in {5, 9}}
    /\ doc_pc = "try"
    /\ doc_attempt = 0
    /\ doc_elapsed = 0
    /\ doc_exc = "none"
    /\ get_attempt = 0
    /\ get_elapsed = 0

\* One call of Scraper.get by a scraper of each kind, on a request of each method.
InitHttp ==
    /\ InitNoCreator
    /\ InitNoWriter
    /\ InitNoPool
    /\ InitNoIds
    /\ InitNoAdapters
    /\ InitNoLog
    /\ InitNoAppends
    /\ InitNoNested
    /\ InitNoOcr
    /\ scraper_kind \in ScraperKinds
    /\ req_method \in {"get", "open"}
    /\ response = 0
    /\ fn = "get"
    /\ cfg \in {[num |-> n, den |-> 4, max_wait |-> 2 * Unit(4), stop_after_waiting |-> 3 * Unit(4)] :
                  n \in {5, 9}}
    /\ g_pc = "try"
    /\ attempt = 0
    /\ elapsed = 0
    /\ wait = 0
    /\ base_wait = 0
    /\ prev_wait = 0
    /\ sem_held = FALSE
    /\ exc = "none"

\* Concurrent calls of pdf2txt on PDFs of one to MaxPages pages: without a
\* semaphore, as nsw_caselaw.py 117 and federal_court_of_australia.py 220 call it
\* and as the default is (ocr.py 19), or with one.
InitOcr ==
    /\ InitNoCreator
    /\ InitNoCall
    /\ InitNoWriter
    /\ InitNoPool
    /\ InitNoIds
    /\ InitNoAdapters
    /\ InitNoLog
    /\ InitNoAppends
    /\ InitNoNested
    /\ InitNoHttp
    /\ ocr_semaphore \in {"None", "Semaphore"}
    /\ o_value = IF ocr_semaphore = "Semaphore" THEN OcrCapacity ELSE 0
    /\ o_pc = [t \in Tasks |-> "call"]
    /\ o_left \in [Tasks -> 1..MaxPages]
    /\ o_imgs = [t \in Tasks |-> 0]

\* Any two raw version ids and source names.
InitIds ==
    /\ InitNoAppends
    /\ InitNoNested
    /\ InitNoHttp
    /\ InitNoOcr
    /\ InitNoLog
    /\ InitNoAdapters
    /\ InitNoCreator
    /\ InitNoCall
    /\ InitNoWriter
    /\ InitNoPool
    /\ id_a \in Strings
    /\ src_a \in Strings
    /\ id_b \in Strings
    /\ src_b \in Strings
    /\ out_a = <<>>
    /\ out_b = <<>>
    /\ again_a = <<>>
    /\ formatted = {}

InitCreator ==
    /\ InitNoAppends
    /\ InitNoNested
    /\ InitNoHttp
    /\ InitNoOcr
    /\ InitNoLog
    /\ InitNoAdapters
    /\ InitProcess
    /\ InitNoWriter
    /\ InitNoPool
    /\ InitNoIds
    /\ run = 0
    /\ (InitAnyCorpus \/ InitAnyIndex \/ InitBadIndex \/ InitAnyVersions)
    /\ InitNoCall

InitScraper ==
    /\ InitNoAppends
    /\ InitNoNested
    /\ InitNoHttp
    /\ InitNoOcr
    /\ InitNoLog
    /\ InitNoAdapters
    /\ InitNoCreator
    /\ InitNoWriter
    /\ InitNoPool
    /\ InitNoIds
    /\ InitCall

Init == InitCreator \/ InitScraper

Spec == Init /\ [][Next]_vars

\* The calls alone, each step of a call taken in the end: the event loop resumes a
\* coroutine whose request has ended or whose sleep is over.
SpecScraper == InitScraper /\ [][NextScraper]_vars /\ WF_vars(NextScraper)

\* The bytes of the corpus file over some processes, each of which rewrites the
\* corpus and adds the missing documents to it.
SpecWriter == InitWriter /\ [][NextWriter]_vars

\* The tasks of one scraper and its semaphore.
SpecPool == InitPool /\ [][NextPool]_vars

\* Entry.format_id on any two ids and sources.
SpecIds == InitIds /\ [][NextIds]_vars

\* The adapters' get_index and the index files.
SpecAdapters == InitAdapters /\ [][NextAdapters]_vars

\* The bytes of one source's index file, process after process.
SpecLog == InitLog /\ [][NextLog]_vars

\* Concurrent fetches whose records are appended to one file.
SpecAppends == InitAppends /\ [][NextAppends]_vars

\* One call of get_doc with the calls of get inside it.
SpecNested == InitNested /\ [][NextNested]_vars

\* One call of Scraper.get with the retry settings of the scraper.
SpecHttp == InitHttp /\ [][NextHttp]_vars

\* Concurrent calls of pdf2txt.
SpecOcr == InitOcr /\ [][NextOcr]_vars

\* ---------------------------------------------------------------- properties
\* Where the process is, or was when it halted or was stopped.
Where == IF pc \in {"halted", "crashed"} THEN at ELSE pc

\* os.replace (creator.py 261) has not run yet in this call of create / has run.
BeforeReplace == Where \in {"gather", "indexing", "flatten", "rewrite", "replace"}
AfterReplace == Where \in {"docs", "done"}
\* _get_unindexed_index_reqs has run for every scraper / the entries are flattened.
AfterReconcile == Where \in {"indexing", "flatten", "rewrite", "replace", "docs", "done"}
AfterFlatten == Where \in {"rewrite", "replace", "docs", "done"}

\* No two document lines of a file have the same version id.
NoDuplicates(lines) ==
    LET ids == VersionIds(lines)
    IN \A i, j \in DOMAIN ids : i # j => ids[i] # ids[j]

\* The lines of a file at the positions I, from position i on, in their order.
RECURSIVE LinesAt(_, _, _)
LinesAt(lines, i, I) ==
    IF i > Len(lines) THEN <<>>
    ELSE (IF i \in I THEN <<lines[i]>> ELSE <<>>) \o LinesAt(lines, i + 1, I)

\* Line i is a document of a source that is not active.
Outside(lines, i) == lines[i].ok /\ lines[i].source \notin scrapers

\* The documents of the sources that are not active that are the first line of
\* the file with their version id.
FirstOutside(lines) ==
    LinesAt(lines, 1, {i \in DOMAIN lines :
        /\ Outside(lines, i)
        /\ \A j \in 1..(i - 1) : ~(lines[j].ok /\ lines[j].version_id = lines[i].version_id)})

\* C1 as stated: after any run of create, completed or halted, the corpus holds at
\* most one document line for each version id.
C1_DedupAfterAnyRun == pc \in {"done", "halted"} => NoDuplicates(corpus)

\* C1, amended: after any run of create that replaced the corpus file (a completed
\* run, or one halted while documents were added), the corpus holds at most one
\* document line for each version id, whatever the corpus held before.
C1_DedupAfterReplace == (pc \in {"done", "halted"} /\ AfterReplace) => NoDuplicates(corpus)

C1_Witness == pc = "done" /\ ~NoDuplicates(corpus1) /\ appended # <<>>

C4_Case ==
    /\ Cardinality({i \in DOMAIN corpus1 : ~corpus1[i].ok}) = 1
    /\ \A i, j \in DOMAIN corpus1 :
          (i # j /\ corpus1[i].ok /\ corpus1[j].ok) => corpus1[i].version_id # corpus1[j].version_id
    /\ \A i \in DOMAIN corpus1 : corpus1[i].ok => corpus1[i].version_id \in DOMAIN entries

\* C4: in that case the rewrite raises nothing and warns once, and the rewritten
\* corpus is the decodable lines in their order (followed by what the run appends).
C4_CorruptionTolerance ==
    LET good == SelectSeq(corpus1, LAMBDA l : l.ok)
    IN /\ (pc = "halted" => at \notin {"rewrite", "replace"})
       /\ (C4_Case /\ Where = "replace") => (tmp.lines = good /\ warnings = 1)
       /\ (C4_Case /\ AfterReplace) => (corpus = good \o appended /\ warnings = 1)
       /\ (C4_Case /\ pc = "done") => err = "none"

C4_Witness ==
    /\ pc = "done"
    /\ C4_Case
    /\ Len(corpus1) = 3
    /\ ~corpus1[2].ok

\* C5: a call of Scraper.get ends (it returns or raises); it raises an exception
\* of retry_exceptions only when elapsed exceeds stop_after_waiting; and the calls
\* followed never need more than MaxAttempts retries.
C5_RetryTerminates ==
    /\ [](fn = "get" /\ g_pc = "raised" /\ exc \in retry_exceptions
            => elapsed > cfg.stop_after_waiting)
    /\ [](fn = "get" /\ g_pc = "request" /\ attempt = MaxAttempts
            => elapsed > cfg.stop_after_waiting)
    /\ ((fn = "get" /\ g_pc = "try") ~> (g_pc \in {"returned", "raised"}))

C5_Witness ==
    /\ fn = "get"
    /\ g_pc = "raised"
    /\ exc \in retry_exceptions
    /\ attempt >= 3

\* C6 as stated: each wait of Scraper.get is at least the wait before it.
C6_WaitsNonDecreasing == fn = "get" => prev_wait <= wait

\* C6, amended: the wait before the jitter is added (wait_base ** attempt / 2,
\* capped at max_wait) is non-decreasing from one attempt to the next, and each
\* wait slept is between that value and the lesser of its double and max_wait.
C6_BaseWaitsNonDecreasing ==
    /\ [][fn = "get" => base_wait' >= base_wait]_vars
    /\ [](fn = "get" => (base_wait <= wait /\ wait <= 2 * base_wait /\ wait <= cfg.max_wait))

C6_Witness ==
    /\ fn = "get"
    /\ g_pc = "sleep"
    /\ attempt >= 2
    /\ wait < prev_wait
    /\ base_wait > 0

\* C7: once _get_unindexed_index_reqs has run, the index of an active source holds
\* no batch whose request is not among the requests of this run, and every key of
\* the flattened entries is yielded by a batch of such a request.
C7_StaleBatchesDropped ==
    /\ AfterReconcile =>
          \A s \in scrapers : \A k \in DOMAIN index[s].lines :
              index[s].lines[k].request \in index_reqs[s]
    /\ AfterFlatten =>
          \A v \in DOMAIN entries :
              \E s \in scrapers : \E k \in DOMAIN index[s].lines :
                  /\ index[s].lines[k].request \in index_reqs[s]
                  /\ v \in {e.version_id : e \in index[s].lines[k].entries}

C7_Witness ==
    /\ pc = "done"
    /\ "s1" \in scrapers
    /\ policy["s1"].index # "always"
    /\ \E k \in DOMAIN index0["s1"].lines : index0["s1"].lines[k].request \notin index_reqs["s1"]
    /\ entries # EmptyMap
    /\ "s1:v3" \notin DOMAIN entries

\* C8: a document that get_doc returned None for has no line in the corpus and
\* the run does not end with an error because of it; a run halted while documents
\* were added ended with the exception a task raised; and get_doc carries on after
\* a ParseError only, any other exception leaves it at once.
C8_MissingVsError ==
    /\ \A v \in DOMAIN returned :
          returned[v] = "missing" => \A i \in DOMAIN corpus : corpus[i].version_id # v
    /\ (pc = "done" => err = "none")
    /\ (pc = "halted" /\ at = "docs") => (err \in DocErrors /\ missing # {})
    /\ (fn = "get_doc" /\ g_pc \in {"sleep", "try", "request"}) => exc \in {"none", "ParseError"}

C8_Witness ==
    /\ pc = "halted"
    /\ err = "Exception"
    /\ \E v \in DOMAIN returned : returned[v] = "missing"

\* The source of the example: requests {A, B}, a document for v2, none for v3.
C9_Source ==
    /\ scrapers = {"s1"}
    /\ DOMAIN index_reqs = {"s1"}
    /\ index_reqs["s1"] = {"A", "B"}
    /\ webDoc["s1:v2"] = "doc"
    /\ webDoc["s1:v3"] = "missing"

\* The first run of the example starts from a line for v1 and an undecodable line.
C9_First ==
    /\ C9_Source
    /\ corpus1 \in {<<DocLine("s1:v1", 0), BadLine>>, <<BadLine, DocLine("s1:v1", 0)>>}

\* The next run starts from what the first run left.
C9_Second ==
    /\ C9_Source
    /\ prev.done
    /\ prev.scrapers = {"s1"}
    /\ corpus1 = <<DocLine("s1:v1", 0), DocLine("s1:v2", 0)>>

\* C9: in the example the flattened entries have the keys v1, v2 and v3, the
\* completed run leaves one line for v1 and one for v2 and nothing else, and v3
\* is among the missing documents of the next run.
C9_Example ==
    /\ (C9_First /\ AfterFlatten) => DOMAIN entries = {"s1:v1", "s1:v2", "s1:v3"}
    /\ (C9_First /\ pc = "done") => corpus = <<DocLine("s1:v1", 0), DocLine("s1:v2", 0)>>
    /\ (C9_Second /\ AfterReplace) => "s1:v3" \in missing \cup DOMAIN returned

C9_Witness ==
    /\ C9_Second
    /\ pc = "done"
    /\ corpus = corpus1
    /\ returned = [v \in {"s1:v3"} |-> "missing"]

\* Line i passes the test of the rewrite but for the duplicates.
Eligible(lines, i, ents, active) ==
    /\ lines[i].ok
    /\ (lines[i].version_id \in DOMAIN ents \/ lines[i].source \notin active)

\* The survivors of a rewrite: of the eligible lines, the first with each version id.
Survivors(lines, ents, active) ==
    LinesAt(lines, 1, {i \in DOMAIN lines :
        /\ Eligible(lines, i, ents, active)
        /\ \A j \in 1..(i - 1) :
              ~(Eligible(lines, j, ents, active) /\ lines[j].version_id = lines[i].version_id)})

\* C10: until os.replace the corpus file is as it was when create was called, also
\* in a process stopped before it; from os.replace on it is the whole of the
\* survivors, followed by what the run appended: never a part of the survivors.
C10_AtomicRewrite ==
    /\ BeforeReplace => corpus = corpus1
    /\ AfterReplace => corpus = Survivors(corpus1, entries, scrapers) \o appended

C10_Witness ==
    /\ pc = "crashed"
    /\ at = "rewrite"
    /\ tmp.lines # <<>>
    /\ pos <= Len(corpus)
    /\ Len(Survivors(corpus1, entries, scrapers)) > Len(tmp.lines)
    /\ corpus = corpus1

\* The lines of the corpus file as it is on disk.
DiskLines == SplitLines(f_disk, <<>>)

\* C11 as stated: when a get_doc task raises while documents are added, every
\* document written before it is a complete line of the corpus file, and every
\* line of the file is one whole record.
C11_AppendedLinesComplete ==
    w_pc = "raised" =>
        /\ \A k \in DOMAIN w_appended :
              \E n \in DOMAIN DiskLines :
                  DiskLines[n].b = Payload(w_appended[k]) /\ DiskLines[n].nl
        /\ \A n \in DOMAIN DiskLines : IsDocument(DiskLines[n])

\* C12: a version id get_doc returned None for in the process before this one, and
\* that is a key of the flattened entries of this process, is among the documents
\* this process dispatches get_doc for (those still awaited and those returned).
C12_MissingRetried ==
    AfterReplace => \A v \in prev.none \cap DOMAIN entries : v \in missing \cup DOMAIN returned

C12_Witness ==
    /\ pc = "done"
    /\ prev.none # {}
    /\ \E v \in prev.none : v \in DOMAIN returned /\ returned[v] = "missing"

C14_NeverRefreshKept ==
    [][\A s \in scrapers :
          /\ (pc = "gather" /\ kwargs[s].indices = "never" /\ indices[s].ex)
                => indices'[s] = indices[s]
          /\ (pc = "gather" /\ pc' \in {"flatten", "indexing"} /\ kwargs[s].index = "never")
                => \A k \in DOMAIN index[s].lines :
                      index[s].lines[k].request \in index_reqs[s]
                          => \E j \in DOMAIN index'[s].lines : index'[s].lines[j] = index[s].lines[k]]_vars

\* C15: the constructor deletes the artifact of each category whose stamp in
\* versions.json differs from the expected one and leaves the others as they are,
\* and it leaves versions.json equal to the expected versions; a construction that
\* follows another one deletes nothing.
C15_VersionGuard ==
    [][(pc \in Stopped /\ pc' = "create") =>
          LET differs(name) == versions.ex /\ versions.v[name] # DATA_VERSIONS[name]
          IN /\ corpus' = IF differs("corpus") THEN <<>> ELSE corpus
             /\ indices' = IF differs("indices") THEN [s \in Sources |-> NoCache] ELSE indices
             /\ index' = IF differs("index") THEN [s \in Sources |-> NoLog] ELSE index
             /\ versions' = [ex |-> TRUE, v |-> DATA_VERSIONS]
             /\ run >= 1 => (corpus' = corpus /\ indices' = indices /\ index' = index)]_vars

C15_Witness ==
    /\ pc = "create"
    /\ run = 1
    /\ purged
    /\ corpus = <<>>
    /\ \A s \in Sources : indices[s].ex /\ index[s].ex
    /\ versions = [ex |-> TRUE, v |-> DATA_VERSIONS]

\* C16: the number of tasks of one scraper between acquiring and releasing its
\* semaphore is at most the value the semaphore was created with.
C16_BoundedConcurrency ==
    /\ Cardinality(InFlight) <= SemaphoreValue
    /\ sem_value = SemaphoreValue - Cardinality(InFlight)

C16_Witness ==
    /\ Cardinality(InFlight) = SemaphoreValue
    /\ \E t \in Tasks : t_pc[t] = "waiting" /\ t_attempt[t] > 0

IsPrefix(p, str) == Len(p) <= Len(str) /\ SubSeq(str, 1, Len(p)) = p

\* C18: a formatted version id starts with the source name and a colon, and
\* formatting it again leaves it as it is.
C18_PrefixedIdempotent ==
    /\ "a" \in formatted => IsPrefix(src_a \o Colon, out_a)
    /\ "b" \in formatted => IsPrefix(src_b \o Colon, out_b)
    /\ "again" \in formatted => again_a = out_a

C18_Witness ==
    /\ "again" \in formatted
    /\ out_a # id_a
    /\ IsPrefix(src_a, id_a)
    /\ src_a # <<>>

HasColon(str) == \E i \in DOMAIN str : str[i] = ":"

\* C19 as stated: the formatted ids of two entries of different sources differ,
\* whatever the source names.
C19_NoCollision ==
    ({"a", "b"} \subseteq formatted /\ src_a # src_b) => out_a # out_b

\* C19: the formatted ids of two entries of different sources differ when
\* neither source name holds a colon.
C19_NoCollisionColonFree ==
    ({"a", "b"} \subseteq formatted /\ src_a # src_b /\ ~HasColon(src_a) /\ ~HasColon(src_b))
        => out_a # out_b

C19_Witness ==
    /\ {"a", "b"} \subseteq formatted
    /\ src_a # src_b
    /\ ~HasColon(src_a) /\ ~HasColon(src_b)
    /\ IsPrefix(src_a, src_b)
    /\ src_a # <<>>
    /\ out_a = id_a
    /\ out_b # id_b

\* C20: in get and in get_doc the wait before retry n lies between
\* min(wait_base^n / 2, max_wait) and min(wait_base^n, max_wait), and so never
\* exceeds max_wait, whatever the jitter.
C20_BackoffWindow ==
    g_pc = "sleep" =>
        LET half == BackoffWait(cfg, attempt)
            low == IF half < cfg.max_wait THEN half ELSE cfg.max_wait
            high == IF 2 * half < cfg.max_wait THEN 2 * half ELSE cfg.max_wait
        IN /\ low <= wait
           /\ wait <= high
           /\ wait <= cfg.max_wait

C20_Witness ==
    /\ fn = "get_doc"
    /\ g_pc = "sleep"
    /\ attempt >= 1
    /\ BackoffWait(cfg, attempt) < cfg.max_wait
    /\ wait = cfg.max_wait

\* C21: while the corpus is rewritten the temporary file holds the survivors of
\* the lines read so far, and when the loop has ended the survivors of the whole
\* corpus: the decodable lines that are indexed or of a source that is not active,
\* the first of each version id, in their order and as they were.
C21_SurvivorRule ==
    /\ pc = "rewrite" =>
          /\ tmp.lines = Survivors(SubSeq(corpus, 1, pos - 1), entries, scrapers)
          /\ corpus_version_ids = VersionIds(tmp.lines)
    /\ pc = "replace" => tmp.lines = Survivors(corpus, entries, scrapers)

C21_Witness ==
    /\ pc = "replace"
    /\ \E i \in DOMAIN tmp.lines : tmp.lines[i].version_id \in DOMAIN entries
    /\ \E i \in DOMAIN corpus : ~corpus[i].ok
    /\ \E i \in DOMAIN corpus :
          corpus[i].ok /\ corpus[i].source \in scrapers /\ corpus[i].version_id \notin DOMAIN entries

\* C22: a _get_index_reqs task retrieves the requests anew and overwrites the cache
\* exactly when there is no cache, or the interval is True, or it is a duration
\* that the age of the cache exceeds; otherwise it returns the cached requests and
\* leaves the cache as it is, and get_index_reqs, not being called, cannot raise.
C22_CacheRule ==
    [][pc = "gather" =>
          LET anew(s) == \/ ~indices[s].ex
                         \/ policy[s].indices = "always"
                         \/ /\ policy[s].indices \notin {"always", "never"}
                            /\ now - indices[s].mtime > Dur(policy[s].indices)
          IN /\ \A s \in DOMAIN index_reqs' \ DOMAIN index_reqs :
                   IF anew(s)
                   THEN /\ index_reqs'[s] = webReqs[s]
                        /\ indices'[s] = [ex |-> TRUE, reqs |-> webReqs[s], mtime |-> now]
                   ELSE /\ index_reqs'[s] = indices[s].reqs
                        /\ indices' = indices
             /\ err' = "get_index_reqs" => \E s \in scrapers \ DOMAIN index_reqs : anew(s)]_vars

C22_Witness ==
    /\ pc = "gather"
    /\ DOMAIN index_reqs = {"s1", "s2"}
    /\ indices["s1"].mtime < now
    /\ index_reqs["s1"] = indices["s1"].reqs
    /\ index_reqs["s1"] # webReqs["s1"]
    /\ indices["s2"].mtime = now
    /\ index_reqs["s2"] = webReqs["s2"]

\* C23: _get_unindexed_index_reqs keeps exactly the batches whose request is one of
\* the index requests and that, unless the interval is False, were indexed within
\* the interval (none when the interval is True: the file is deleted); it returns
\* the index requests less the requests of the batches kept; and when no batch is
\* dropped and the file is not deleted or opened to append, the file is as it was.
C23_IndexFilter ==
    [][(pc = "gather" /\ pc' \in {"flatten", "indexing"}) =>
          \A s \in scrapers :
              LET interval == policy[s].index
                  keep(b) == /\ b.request \in index_reqs[s]
                             /\ \/ interval = "never"
                                \/ /\ interval # "always"
                                   /\ now - b.when_indexed <= Dur(interval)
                  kept == SelectSeq(index[s].lines, keep)
                  todo == {t[2] : t \in {u \in unindexed' : u[1] = s}}
              IN /\ index'[s].lines = kept
                 /\ todo = index_reqs[s] \ {kept[k].request : k \in DOMAIN kept}
                 /\ (kept = index[s].lines /\ interval # "always" /\ todo = {})
                        => index'[s] = index[s]]_vars

C23_Witness ==
    /\ pc = "indexing"
    /\ policy["s1"].index = "day"
    /\ index["s1"].lines # <<>>
    /\ Len(index0["s1"].lines) > Len(index["s1"].lines)
    /\ \A k \in DOMAIN index0["s1"].lines : index0["s1"].lines[k].request \in index_reqs["s1"]
    /\ \E t \in unindexed : t[1] = "s1"

\* C24 as stated: when the indexing halts, by a get_index task that raises or by
\* the process stopping, every batch written before is a line of the index file; and
\* in a later process the requests of the batches written before are not indexed
\* again.
C24_AppendedBatchesKept ==
    /\ l_pc \in {"raised", "killed"} =>
          \A r \in l_appended : \E n \in DOMAIN LogLines : LogLines[n].b = Payload(r)
    /\ l_pc = "indexing" => l_todo \cap l_before = {}

\* Batch k of the index of scraper s has an entry for version id v.
Holds(s, k, v) == \E e \in index[s].lines[k].entries : e.version_id = v

\* The place of a scraper in self.scrapers.
Rank(s) == IF s = "s1" THEN 1 ELSE 2

\* C25: the flattened entries have one value for each version id of a batch of an
\* index of an active scraper and for no other, and the value is the scraper and
\* the entry of the batch met last: no batch of a later scraper, and no later
\* batch of the same index, has the version id.
C25_FlattenLastWins ==
    pc \in {"rewrite", "replace", "docs", "done"} =>
        /\ DOMAIN entries =
              {e.version_id : e \in UNION {UNION {index[s].lines[k].entries :
                                                     k \in DOMAIN index[s].lines} : s \in scrapers}}
        /\ \A v \in DOMAIN entries :
              \E s \in scrapers : \E k \in DOMAIN index[s].lines :
                  /\ Holds(s, k, v)
                  /\ entries[v].scraper = s
                  /\ entries[v].entry \in index[s].lines[k].entries
                  /\ entries[v].entry.version_id = v
                  /\ \A t \in scrapers : \A j \in DOMAIN index[t].lines :
                        (Rank(t) > Rank(s) \/ (t = s /\ j > k)) => ~Holds(t, j, v)

C25_Witness ==
    /\ pc = "rewrite"
    /\ Len(index["s1"].lines) = 2
    /\ index["s1"].lines[1].request = "B"
    /\ index["s1"].lines[2].request = "A"
    /\ entries["s1:v2"].entry.title = "A"
    /\ "s2:w1" \in DOMAIN entries

\* The version ids the indexes of the active scrapers give for their index requests.
IndexedIds ==
    {e.version_id : e \in UNION {UNION {WebIndex(r) : r \in index_reqs[s]} : s \in scrapers}}

AppendLines == SplitLines(a_file, <<>>)

\* C27: while fetches run concurrently at most one record is being appended to the
\* file; every line of the file that ends in a newline is one whole record, and
\* the bytes after the last newline, if any, are the record being appended.
C27_SerializedAppends ==
    /\ Cardinality({t \in Tasks : a_pc[t] \in {"taken", "record"}}) <= 1
    /\ \A n \in DOMAIN AppendLines :
          IF AppendLines[n].nl
          THEN \E t \in Tasks : a_pc[t] = "end" /\ AppendLines[n].b = Payload(t)
          ELSE a_writer # 0 /\ a_pc[a_writer] = "record" /\ AppendLines[n].b = Payload(a_writer)

C27_Witness ==
    /\ \E t \in Tasks : a_pc[t] = "end"
    /\ \E t \in Tasks : a_pc[t] = "record"
    /\ \E t \in Tasks : a_pc[t] = "ready"
    /\ a_file # <<>>

\* C28: get_doc retries only on ParseError and counts those retries in its own
\* attempt and elapsed: a backoff inside get leaves both unchanged; the counters
\* of get_doc move only on a ParseError met before its elapsed wait exceeded
\* stop_after_waiting; a ParseError leaves get_doc only once its elapsed wait has
\* exceeded stop_after_waiting; any other exception leaves get_doc at once.
C28_ParseRetryIndependent ==
    [][/\ (get_attempt' # get_attempt \/ get_elapsed' # get_elapsed) =>
              /\ doc_attempt' = doc_attempt
              /\ doc_elapsed' = doc_elapsed
       /\ (doc_attempt' # doc_attempt \/ doc_elapsed' # doc_elapsed) =>
              /\ doc_exc' = "ParseError"
              /\ doc_attempt' = doc_attempt + 1
              /\ doc_elapsed' > doc_elapsed
              /\ doc_elapsed <= doc_cfg.stop_after_waiting
              /\ doc_pc' = "try"
       /\ (doc_pc = "request" /\ doc_pc' = "raised" /\ doc_exc' = "ParseError") =>
              doc_elapsed > doc_cfg.stop_after_waiting
       /\ (doc_pc = "request" /\ doc_exc' \notin {doc_exc, "ParseError"}) =>
              /\ doc_pc' = "raised"
              /\ doc_attempt' = doc_attempt
      ]_vars

\* get_doc has raised a ParseError after retries of its own, and the last call of
\* get inside it had backed off too, with counters that differ from get_doc's.
C28_Witness ==
    /\ doc_pc = "raised"
    /\ doc_exc = "ParseError"
    /\ doc_attempt > 1
    /\ get_attempt > 0
    /\ get_attempt # doc_attempt
    /\ get_elapsed # doc_elapsed

C30_OpenReturnsResponse ==
    req_method = "open" =>
        /\ g_pc \in {"try", "returned"}
        /\ ~sem_held
        /\ attempt = 0
        /\ wait = 0
        /\ elapsed = 0

\* C31: the calls of pdf2txt that are inside the page-batch loop at the same time
\* never number more than the capacity of the OCR semaphore, and a call holds at
\* most one batch of batch_size page images.
C31_OcrBound ==
    /\ Cardinality(Converting) <= OcrCapacity
    /\ \A t \in Tasks : o_imgs[t] <= BatchSize

\* C32: a task that sleeps in backoff holds no slot of the semaphore: the step
\* from the request to the sleep gives the slot back, and while tasks sleep the
\* free slots are all those not held by tasks with a request in flight, so a
\* waiting task is kept waiting only by requests in flight.
C32_SleepHoldsNoSlot ==
    [][\A t \in Tasks : t_pc'[t] = "sleeping" =>
           /\ t_pc[t] = "in_flight" => sem_value' = sem_value + 1
           /\ sem_value' = SemaphoreValue - Cardinality({u \in Tasks : t_pc'[u] = "in_flight"})
           /\ (\E u \in Tasks : t_pc'[u] = "waiting") =>
                 (sem_value' > 0 \/ Cardinality({u \in Tasks : t_pc'[u] = "in_flight"}) = SemaphoreValue)
      ]_vars

\* One task sleeps before its retry while the others hold every slot.
C32_Witness ==
    /\ \E t \in Tasks : t_pc[t] = "sleeping" /\ t_attempt[t] > 0
    /\ Cardinality(InFlight) = SemaphoreValue
    /\ sem_value = 0

\* C33: when get raises one of retry_exceptions, or get_doc a ParseError, after
\* retrying, the sum of the backoff waits is greater than stop_after_waiting and
\* at most stop_after_waiting + max_wait; the sum was not greater before the last
\* wait, and once it is greater no further backoff is made: the one attempt that
\* follows ends the call.
C33_RaiseWindow ==
    [][/\ (g_pc' = "raised" /\ g_pc # "raised" /\ attempt' > 0
           /\ exc' \in (IF fn' = "get" THEN retry_exceptions ELSE {"ParseError"})) =>
              /\ elapsed' > cfg'.stop_after_waiting
              /\ elapsed' <= cfg'.stop_after_waiting + cfg'.max_wait
              /\ elapsed' - wait' <= cfg'.stop_after_waiting
       /\ elapsed > cfg.stop_after_waiting =>
              /\ attempt' = attempt
              /\ elapsed' = elapsed
              /\ g_pc = "try" => g_pc' = "request"
              /\ g_pc = "request" => g_pc' \in {"returned", "raised"}
      ]_vars

\* get has raised a retried exception after more than one backoff, the sum of
\* the waits between stop_after_waiting and the ceiling.
C33_Witness ==
    /\ g_pc = "raised"
    /\ fn = "get"
    /\ exc \in retry_exceptions
    /\ attempt > 1
    /\ elapsed > cfg.stop_after_waiting
    /\ elapsed < cfg.stop_after_waiting + cfg.max_wait

\* C34: when create reaches the flattening step, the index file of every active
\* source exists, so that load_jsonl can load it.
C34_LogsLoadable ==
    pc = "flatten" => \A s \in scrapers : index[s].ex

\* The requests of the batches of the index file of a source.
BatchRequests(s) == {index[s].lines[k].request : k \in DOMAIN index[s].lines}

C37_FailureBeforeRewrite ==
    [][/\ pc \in {"gather", "indexing"} => (corpus' = corpus /\ tmp' = tmp)
       /\ (pc \in {"gather", "indexing", "flatten"} /\ pc' = "halted") =>
              /\ err' \in {"get_index_reqs", "get_index", "DecodeError", "FileNotFoundError"}
              /\ corpus' = corpus
              /\ corpus' = corpus1'
              /\ tmp' = tmp
      ]_vars

\* create has halted on an index file that cannot be decoded, with a corpus file
\* of one document and no temporary file.
C37_Witness ==
    /\ pc = "halted"
    /\ err = "DecodeError"
    /\ at = "gather"
    /\ corpus # <<>>
    /\ ~tmp.ex

====
